---- MODULE Spec2Model ----
(***************************************************************************)
(* A model of CDAElementFinder (src/cda_element_finder.py): conversion of  *)
(* path expressions, matching against an ElementTree document, and the     *)
(* grouping of matches by template instance.                               *)
(*                                                                         *)
(* Representation.                                                         *)
(*  - A document is a record of four sequences indexed by node: parent     *)
(*    (0 for the document element, node 1), tag (local name; every element *)
(*    is in the urn:hl7-org:v3 namespace), tid (the root attribute of the  *)
(*    element's cda:templateId child, or None) and attrs (the names of the *)
(*    attributes the element carries).  Nodes are numbered in document     *)
(*    order.  The value of attribute a of node n is the pair <<n, a>>.     *)
(*  - A path string is the sequence of the parts that split('/') gives;    *)
(*    the empty string is the empty sequence.  A part is a record          *)
(*    [k, ns, n, p, v]: k is "el" (element step), "at" (@name), "dot" (.)  *)
(*    or "empty" (the empty part a leading or doubled slash leaves); ns is *)
(*    the namespace prefix written in the part; n the name; p the kind of  *)
(*    predicate ("" or "tid" for [templateId[@root='v']]); v its value.    *)
(***************************************************************************)
EXTENDS Integers, Sequences, FiniteSets, TLC

None == "None"

\* ------------------------------------------------------------------ bounds
\* Elements below the document element.
MaxNodes == 4
\* Entries of a catalog.
MaxCatalog == 2

\* ------------------------------------------------------------- path parts
El(name) == [k |-> "el", ns |-> "", n |-> name, p |-> "", v |-> ""]
ElT(name, id) == [k |-> "el", ns |-> "", n |-> name, p |-> "tid", v |-> id]
At(name) == [k |-> "at", ns |-> "", n |-> name, p |-> "", v |-> ""]
\* A step with an inline attribute-equality predicate, name[@root='value'].
ElA(name, value) == [k |-> "el", ns |-> "", n |-> name, p |-> "attr", v |-> value]
Cda(name, pk, pv) == [k |-> "el", ns |-> "cda", n |-> name, p |-> pk, v |-> pv]
Dot == [k |-> "dot", ns |-> "", n |-> ".", p |-> "", v |-> ""]
EmptyPart == [k |-> "empty", ns |-> "", n |-> "", p |-> "", v |-> ""]

\* Sequence helpers.
RECURSIVE SelectIdx(_, _, _)
\* The least index i >= from of s with s[i].p = "tid", or 0.
SelectIdx(s, from, pk) ==
    IF from > Len(s) THEN 0
    ELSE IF s[from].p = pk THEN from ELSE SelectIdx(s, from + 1, pk)

RECURSIVE Flatten(_)
Flatten(ss) == IF ss = <<>> THEN <<>> ELSE Head(ss) \o Flatten(Tail(ss))

RECURSIVE LStrip(_)
\* str.lstrip('/'): drop the empty parts leading slashes leave.
LStrip(s) ==
    IF s = <<>> THEN <<>>
    ELSE IF Head(s).k = "empty" THEN LStrip(Tail(s)) ELSE s

SeqToSet(s) == {s[i] : i \in 1..Len(s)}

\* ---------------------------------------------------------------- document
NumNodes(d) == Len(d.parent)
NodesOf(d) == 1..NumNodes(d)

\* list(elem): the children of an element, in document order.
Children(d, n) == SelectSeq([i \in NodesOf(d) |-> i], LAMBDA c : d.parent[c] = n)

RECURSIVE IterLastChildFirst(_, _)
\* A variant of iter() that visits the children of an element last to first.
IterLastChildFirst(d, n) ==
    LET ch == Children(d, n)
    IN  <<n>> \o Flatten([i \in 1..Len(ch) |->
                             IterLastChildFirst(d, ch[Len(ch) + 1 - i])])

RECURSIVE Iter(_, _)
\* Element.iter(): the element and its descendants, pre-order, depth first.
Iter(d, n) ==
    LET ch == Children(d, n)
    IN  <<n>> \o Flatten([i \in 1..Len(ch) |-> Iter(d, ch[i])])

\* elem.findall('./cda:templateId'): non-empty iff the element has the marker.
HasTemplateId(d, n) == d.tid[n] # None

\* ------------------------------------------------- ElementTree's findall
\* The prefixes of self.namespaces.
Prefixes == {"cda", "xsi", "sdtc", "voc"}

\* The namespace prefix under which the document's elements are found.
DocPrefix == "cda"

\* ElementPath compiles the whole path before it selects anything; it raises
\* on an absolute path, on a token it has no operation for (@), on a
\* predicate it cannot parse, on an unknown prefix and on // not followed by a
\* name.
PathRaises(path) ==
    \/ (path # <<>> /\ path[1].k = "empty")
    \/ \E i \in 1..Len(path) :
          \/ path[i].k = "at"
          \/ (path[i].k = "el" /\ path[i].ns # "" /\ path[i].ns \notin Prefixes)
          \/ (path[i].k = "el" /\ path[i].p \notin {"", "attr"})
          \/ (path[i].k = "empty" /\ (i = Len(path) \/ path[i + 1].k # "el"))

\* Whether element n answers to the name test of an element step.
TagMatches(d, n, part) == part.ns = DocPrefix /\ d.tag[n] = part.n

\* One element step from one context element: its children, or (after //)
\* its descendants, that pass the name test.
StepFrom(d, n, part, desc) ==
    LET cand == IF desc THEN Tail(Iter(d, n)) ELSE Children(d, n)
    IN  SelectSeq(cand, LAMBDA c : TagMatches(d, c, part))

RECURSIVE Select(_, _, _, _)
\* The selectors of path[i..] applied to the context elements ctx.
Select(d, ctx, path, i) ==
    IF i > Len(path) THEN ctx
    ELSE IF path[i].k = "dot" THEN Select(d, ctx, path, i + 1)
    ELSE IF path[i].k = "empty"
         THEN Select(d, Flatten([c \in 1..Len(ctx) |->
                                  StepFrom(d, ctx[c], path[i + 1], TRUE)]),
                     path, i + 2)
    ELSE Select(d, Flatten([c \in 1..Len(ctx) |->
                             StepFrom(d, ctx[c], path[i], FALSE)]),
                path, i + 1)

\* elem.findall(path, self.namespaces): ok = FALSE when it raises.
FindAll(d, elem, path) ==
    IF PathRaises(path) THEN [ok |-> FALSE, els |-> <<>>]
    ELSE IF path = <<>> THEN [ok |-> TRUE, els |-> <<>>]
    ELSE [ok |-> TRUE, els |-> Select(d, <<elem>>, path, 1)]

\* ------------------------------------------------------- template instances
\* _find_template_instances: every element, in iter() order, that has a
\* cda:templateId child whose root is template_id.
FindTemplateInstances(d, template_id) ==
    SelectSeq(Iter(d, 1), LAMBDA n : d.tid[n] = template_id)

\* _get_relative_xpath: what follows the first Elem[templateId[@root='..']]
\* step, without its leading slashes; the whole path when there is none.
GetRelativeXPath(xpath) ==
    LET i == SelectIdx(xpath, 1, "tid")
    IN  IF i = 0 THEN xpath ELSE LStrip(SubSeq(xpath, i + 1, Len(xpath)))

\* cda_elements of _convert_relative_xpath.
RelCdaElements ==
    {"code", "value", "text", "statusCode", "methodCode", "effectiveTime",
     "low", "high", "author", "time", "entryRelationship", "observation",
     "organizer", "component", "section", "entry", "act",
     "substanceAdministration", "participant", "participantRole", "id",
     "templateId", "procedure"}

\* A variant of the part conversion that never adds the prefix.
ConvertRelativePartUnqualified(part) == part

\* One part of _convert_relative_xpath's loop: the prefix cda: is put before
\* a vocabulary name that has none.
ConvertRelativePart(part) ==
    IF part.k = "el" /\ part.ns = "" /\ part.n \in RelCdaElements
    THEN [part EXCEPT !.ns = "cda"]
    ELSE part

\* _convert_relative_xpath: ".//" before the converted parts, "./" when there
\* is one part only, "." when there is none.
ConvertRelativeXPath(xpath) ==
    LET kept == SelectSeq(xpath, LAMBDA q : q.k # "empty")
        conv == [i \in 1..Len(kept) |-> ConvertRelativePart(kept[i])]
    IN  IF conv = <<>> THEN <<Dot>>
        ELSE IF xpath[1].k # "dot" /\ Len(conv) = 1 THEN <<Dot>> \o conv
        ELSE <<Dot, EmptyPart>> \o conv

\* A match inside an instance: the element and, for an attribute match, the
\* attribute's name ("" otherwise).  The dict the code builds (tag, text,
\* attributes, attribute_name, attribute_value) is read off these two.
ElemResult(n) == [node |-> n, attr |-> ""]
AttrResult(n, a) == [node |-> n, attr |-> a]

\* xml.etree.ElementTree elements have no getparent method.
ElementHasGetParent == FALSE

\* current.getparent() if hasattr(current, 'getparent') else None
GetParent(d, n) == IF ElementHasGetParent THEN d.parent[n] ELSE 0

RECURSIVE DifferentAncestorWalk(_, _, _, _)
\* The while loop of _has_different_template_ancestor, from current.
DifferentAncestorWalk(d, current, element, template_root) ==
    IF current = 0 \/ current = template_root THEN FALSE
    ELSE IF HasTemplateId(d, current) /\ d.tid[current] # d.tid[template_root]
            /\ current # element
         THEN TRUE
    ELSE DifferentAncestorWalk(d, GetParent(d, current), element, template_root)

\* _has_different_template_ancestor
HasDifferentTemplateAncestor(d, element, template_root) ==
    DifferentAncestorWalk(d, element, element, template_root)

\* A variant of _is_nested_template_element that counts template_root among
\* the nested templates.
IsNestedTemplateElementInclusive(d, element, template_root) ==
    \E nested \in SeqToSet(Iter(d, template_root)) :
        /\ HasTemplateId(d, nested)
        /\ element \in SeqToSet(Iter(d, nested))

\* A variant of _is_nested_template_element that collects the nested templates
\* from the whole document instead of from below template_root.
IsNestedTemplateElementAnywhere(d, element, template_root) ==
    \E nested \in SeqToSet(Iter(d, 1)) \ {1} :
        /\ HasTemplateId(d, nested)
        /\ element \in SeqToSet(Iter(d, nested))

\* _is_nested_template_element: the element lies in the subtree of a proper
\* descendant of template_root that has a templateId child.
IsNestedTemplateElement(d, element, template_root) ==
    \E nested \in SeqToSet(Tail(Iter(d, template_root))) :
        /\ HasTemplateId(d, nested)
        /\ element \in SeqToSet(Iter(d, nested))

\* The elements of a list that carry attribute a, as attribute matches.
AttrResults(d, els, a) ==
    LET have == SelectSeq(els, LAMBDA e : a \in d.attrs[e])
    IN  [i \in 1..Len(have) |-> AttrResult(have[i], a)]

ElemResults(els) == [i \in 1..Len(els) |-> ElemResult(els[i])]

\* The candidates one step of _handle_complex_xpath_with_templateid keeps
\* below current_elem: findall('.//cda:<name>'), without those that
\* _has_different_template_ancestor rejects and, for a step with a templateId
\* predicate, without those that lack the required templateId.
ComplexCandidates(d, template_elem, current_elem, part) ==
    SelectSeq(Tail(Iter(d, current_elem)), LAMBDA c :
        /\ (part.p = "tid" \/ part.ns = "") /\ d.tag[c] = part.n
        /\ (c = template_elem \/ ~HasDifferentTemplateAncestor(d, c, template_elem))
        /\ (part.p = "tid" => d.tid[c] = part.v))

RECURSIVE HandleComplexFrom(_, _, _, _, _)
\* The loop of _handle_complex_xpath_with_templateid from part i on.
HandleComplexFrom(d, template_elem, xpath, i, current_elements) ==
    IF i > Len(xpath) THEN ElemResults(current_elements)
    ELSE IF xpath[i].k = "empty"
         THEN HandleComplexFrom(d, template_elem, xpath, i + 1, current_elements)
    ELSE IF xpath[i].p # "tid" /\ xpath[i].k = "at"
         THEN AttrResults(d, current_elements, xpath[i].n)
    ELSE LET next_elements ==
                 Flatten([c \in 1..Len(current_elements) |->
                     ComplexCandidates(d, template_elem, current_elements[c],
                                       xpath[i])])
         IN  IF next_elements = <<>> THEN <<>>
             ELSE HandleComplexFrom(d, template_elem, xpath, i + 1, next_elements)

\* _handle_complex_xpath_with_templateid
HandleComplexXPathWithTemplateId(d, template_elem, xpath) ==
    HandleComplexFrom(d, template_elem, xpath, 1, <<template_elem>>)

\* 'templateId[@root=' in relative_xpath
HasTemplateIdText(xpath) == \E i \in 1..Len(xpath) : xpath[i].p = "tid"

\* The greatest index of an attribute part that a slash precedes, or 0:
\* where rsplit('/@', 1) cuts.
LastAttrIdx(path) ==
    LET at == {i \in 2..Len(path) : path[i].k = "at"}
    IN  IF at = {} THEN 0 ELSE CHOOSE i \in at : \A j \in at : j <= i

\* The elements of a list that _is_nested_template_element does not reject.
NotNested(d, els, template_elem) ==
    SelectSeq(els, LAMBDA e : ~IsNestedTemplateElement(d, e, template_elem))

\* A variant that reports nothing for the template element itself.
TemplateElementUnreported(template_elem) == <<>>

\* Lines 782-788: the template element itself, as the only result.
TemplateElementItself(template_elem) == <<ElemResult(template_elem)>>

\* _find_within_template_instance
FindWithinTemplateInstance(d, template_elem, relative_xpath) ==
    IF relative_xpath = <<>> THEN TemplateElementItself(template_elem)
    ELSE IF HasTemplateIdText(relative_xpath)
         THEN HandleComplexXPathWithTemplateId(d, template_elem, relative_xpath)
    ELSE LET converted_xpath == ConvertRelativeXPath(relative_xpath)
             ai == LastAttrIdx(converted_xpath)
         IN  IF ai > 0
             THEN LET found == FindAll(d, template_elem,
                                       SubSeq(converted_xpath, 1, ai - 1))
                  IN  IF ~found.ok \/ ai < Len(converted_xpath) THEN <<>>
                      ELSE AttrResults(d, NotNested(d, found.els, template_elem),
                                       converted_xpath[ai].n)
             ELSE LET found == FindAll(d, template_elem, converted_xpath)
                  IN  IF ~found.ok THEN <<>>
                      ELSE ElemResults(NotNested(d, found.els, template_elem))

\* ------------------------------------------------------------- field names
\* The generic element types _extract_field_name skips.
GenericNames == {"observation", "organizer", "act"}

\* A segment of a key: a name, and whether an @ stands before it.
Seg(name) == [at |-> FALSE, n |-> name]

\* part.split('[')[0].split(':')[-1]; an attribute part keeps its @.
CleanPart(part) == [at |-> part.k = "at", n |-> part.n]

\* A variant that looks at the last two parts only and keeps those that are
\* not empty, do not start with templateId and are not generic.
MeaningfulPartsOfLastTwo(parts) ==
    LET last == IF Len(parts) <= 2 THEN parts
                ELSE SubSeq(parts, Len(parts) - 1, Len(parts))
        named == SelectSeq(last, LAMBDA q :
                     /\ q.k # "empty"
                     /\ ~(q.k = "el" /\ q.ns = "" /\ q.n = "templateId")
                     /\ ~(q.k # "at" /\ q.n \in GenericNames))
    IN  [i \in 1..Len(named) |-> [at |-> named[i].k = "at", n |-> named[i].n]]

\* The loop over reversed(path_parts): the last two of the parts that are not
\* empty, do not start with templateId and are not generic, in path order.
MeaningfulParts(parts) ==
    LET named == SelectSeq(parts, LAMBDA q :
                     /\ q.k # "empty"
                     /\ ~(q.k = "el" /\ q.ns = "" /\ q.n = "templateId")
                     /\ ~(q.k # "at" /\ q.n \in GenericNames))
        clean == [i \in 1..Len(named) |-> CleanPart(named[i])]
    IN  IF Len(clean) <= 2 THEN clean ELSE SubSeq(clean, Len(clean) - 1, Len(clean))

\* The least index of an attribute part that a slash precedes, or 0: where
\* split('/@')[0] ends.
FirstAttrIdx(path) ==
    LET at == {i \in 2..Len(path) : path[i].k = "at"}
    IN  IF at = {} THEN 0 ELSE CHOOSE i \in at : \A j \in at : i <= j

\* A variant that treats an element part of one segment like the longer ones.
ExtractFieldNameSameForOne(xpath) ==
    IF LastAttrIdx(xpath) > 0
    THEN LET attr_name == xpath[LastAttrIdx(xpath)].n
             path_parts == SubSeq(xpath, 1, FirstAttrIdx(xpath) - 1)
             meaningful_parts == MeaningfulParts(path_parts)
         IN  IF meaningful_parts # <<>>
             THEN [sep |-> "/", segs |-> Append(meaningful_parts, Seg(attr_name))]
             ELSE [sep |-> "_",
                   segs |-> <<CleanPart(path_parts[Len(path_parts)]), Seg(attr_name)>>]
    ELSE LET meaningful_parts == MeaningfulParts(xpath)
         IN  IF meaningful_parts # <<>>
             THEN [sep |-> "/", segs |-> meaningful_parts]
             ELSE [sep |-> "/",
                   segs |-> IF xpath = <<>> THEN <<Seg("")>>
                            ELSE <<CleanPart(xpath[Len(xpath)])>>]

\* _extract_field_name.  A key is the sequence of its segments and the
\* separator that joins them.
ExtractFieldName(xpath) ==
    IF LastAttrIdx(xpath) > 0
    THEN LET attr_name == xpath[LastAttrIdx(xpath)].n
             path_parts == SubSeq(xpath, 1, FirstAttrIdx(xpath) - 1)
             meaningful_parts == MeaningfulParts(path_parts)
         IN  IF Len(path_parts) >= 2
             THEN IF meaningful_parts # <<>>
                  THEN [sep |-> "/", segs |-> Append(meaningful_parts, Seg(attr_name))]
                  ELSE [sep |-> "_",
                        segs |-> <<CleanPart(path_parts[Len(path_parts)]), Seg(attr_name)>>]
             ELSE [sep |-> "/", segs |-> <<Seg(attr_name)>>]
    ELSE LET meaningful_parts == MeaningfulParts(xpath)
         IN  IF meaningful_parts # <<>>
             THEN [sep |-> "/", segs |-> meaningful_parts]
             ELSE [sep |-> "/",
                   segs |-> IF xpath = <<>> THEN <<Seg("")>>
                            ELSE <<CleanPart(xpath[Len(xpath)])>>]

\* ------------------------------------------------------ _convert_xpath_for_et
\* cda_elements of _convert_xpath_for_et.
FlatCdaElements ==
    {"ClinicalDocument", "recordTarget", "patientRole", "patient",
     "encompassingEncounter", "observation", "organizer", "entry", "section",
     "component", "act", "substanceAdministration", "name", "given", "family",
     "addr", "city", "state", "telecom", "effectiveTime", "title", "id",
     "administrativeGenderCode", "birthTime", "raceCode", "low", "high",
     "methodCode", "author", "time", "value", "templateId", "country",
     "postalCode", "county", "streetAddressLine", "componentOf", "location",
     "healthCareFacility", "serviceProviderOrganization", "statusCode", "code",
     "displayName", "codeSystemName", "procedure", "participant",
     "participantRole"}

\* cda_search_elements of _convert_xpath_for_et.
CdaSearchElements ==
    {"observation", "act", "organizer", "substanceAdministration", "encounter",
     "procedure"}

\* The pairs <<name, prefix>> of names of the model in which prefix is a
\* proper initial part of name.
ProperPrefixes == {<<"action", "act">>, <<"observationMedia", "observation">>}

\* str.startswith on names.
NameStartsWith(name, prefix) == name = prefix \/ <<name, prefix>> \in ProperPrefixes

\* A variant of the stored predicate that keeps the earlier one when the
\* expression has no templateId predicate.
StoredPredicateKept(prev, xpath) ==
    LET i == SelectIdx(xpath, 1, "tid")
    IN  IF i = 0 THEN prev
        ELSE [templateid |-> xpath[i].v, element_type |-> xpath[i].n]

\* A variant in which a conversion stores nothing on the finder.
StoredPredicateUntouched(prev, xpath) == prev

\* Lines 286-297: what a conversion stores in self._current_templateid and
\* self._current_element_type, given what was stored before: the first
\* templateId predicate of the expression, or None.
StoredPredicate(prev, xpath) ==
    LET i == SelectIdx(xpath, 1, "tid")
    IN  IF i = 0 THEN [templateid |-> None, element_type |-> None]
        ELSE [templateid |-> xpath[i].v, element_type |-> xpath[i].n]

\* Line 294: every step with a templateId predicate is replaced by the
\* element name of the first such step.
StripTemplatePredicates(xpath) ==
    LET i == SelectIdx(xpath, 1, "tid")
    IN  [j \in 1..Len(xpath) |->
            IF xpath[j].p = "tid"
            THEN [xpath[j] EXCEPT !.n = xpath[i].n, !.p = "", !.v = ""]
            ELSE xpath[j]]

\* The text of the part is exactly ClinicalDocument.
IsClinicalDocument(part) ==
    part.k = "el" /\ part.ns = "" /\ part.n = "ClinicalDocument" /\ part.p = ""

\* '@' in part
HasAt(part) == part.k = "at" \/ part.p = "attr"

\* The prefix cda: before a vocabulary name that has no prefix.
Qualify(part) ==
    IF part.k = "el" /\ part.ns = "" /\ part.n \in FlatCdaElements
    THEN [part EXCEPT !.ns = "cda"]
    ELSE part

\* Lines 303-347: what part i of path_parts adds to the converted path.
ProcessedPart(path_parts, i) ==
    LET part == path_parts[i]
    IN  IF part.k = "empty" THEN <<EmptyPart>>
        ELSE IF i = 1 /\ IsClinicalDocument(part) THEN <<>>
        ELSE IF i = 2 /\ IsClinicalDocument(path_parts[1])
             THEN IF HasAt(part) THEN <<part>> ELSE <<Dot, Qualify(part)>>
        ELSE IF HasAt(part) THEN <<part>>
        ELSE <<Qualify(part)>>

\* Lines 352-353: "." before a path that begins with /@.
DotBeforeAttr(path) ==
    IF Len(path) >= 2 /\ path[1].k = "empty" /\ path[2].k = "at"
    THEN <<Dot>> \o Tail(path)
    ELSE path

\* Line 357: the converted path starts with a search element, with or
\* without the prefix cda:.
StartsWithSearchElement(path) ==
    /\ path # <<>>
    /\ path[1].k = "el"
    /\ path[1].ns \in {"", "cda"}
    /\ \E elem \in CdaSearchElements : NameStartsWith(path[1].n, elem)

\* Lines 355-358: ".//" before a path that starts with a search element.
Promote(path) ==
    IF StartsWithSearchElement(path) THEN <<Dot, EmptyPart>> \o path ELSE path

\* Line 361: [contains(...)] predicates are dropped.
DropContains(path) ==
    [j \in 1..Len(path) |->
        IF path[j].p = "contains" THEN [path[j] EXCEPT !.p = "", !.v = ""]
        ELSE path[j]]

\* _convert_xpath_for_et: the converted path it returns.
ConvertXPathForET(xpath) ==
    LET path_parts == StripTemplatePredicates(xpath)
        processed == Flatten([i \in 1..Len(path_parts) |->
                                 ProcessedPart(path_parts, i)])
    IN  DropContains(Promote(DotBeforeAttr(processed)))

\* ------------------------------------------------------------ flat matching
\* '/<prefix:><name>' in xpath: a part after a slash whose text starts with
\* the name, written with the given prefix.
HasStep(xpath, ns, name) ==
    \E i \in 2..Len(xpath) :
        xpath[i].k = "el" /\ xpath[i].ns = ns /\ NameStartsWith(xpath[i].n, name)

\* '/<prefix:><first>/<prefix:><second>' in xpath
HasSteps(xpath, ns, first, second) ==
    \E i \in 2..(Len(xpath) - 1) :
        /\ xpath[i].k = "el" /\ xpath[i].ns = ns /\ xpath[i].n = first
        /\ xpath[i].p = ""
        /\ xpath[i + 1].k = "el" /\ xpath[i + 1].ns = ns
        /\ NameStartsWith(xpath[i + 1].n, second)

\* xpath.endswith('/@<name>')
EndsWithAttr(xpath, name) ==
    Len(xpath) >= 2 /\ xpath[Len(xpath)].k = "at" /\ xpath[Len(xpath)].n = name

\* xpath.endswith('/<name>')
EndsWithElement(xpath, name) ==
    /\ Len(xpath) >= 2
    /\ xpath[Len(xpath)] = El(name)

\* elem.find('./cda:<name>'): the first child of that name, or 0.
FindChild(d, elem, name) ==
    LET found == SelectSeq(Children(d, elem), LAMBDA c : d.tag[c] = name)
    IN  IF found = <<>> THEN 0 ELSE found[1]

RECURSIVE NestedWalk(_, _, _, _)
\* The while loop of _is_from_nested_template, from current.
NestedWalk(d, current, template_root, target_template_id) ==
    IF current = 0 \/ current = template_root THEN FALSE
    ELSE LET parent == GetParent(d, current)
         IN  IF parent = 0 THEN FALSE
             ELSE IF parent # template_root /\ HasTemplateId(d, parent)
                     /\ d.tid[parent] # target_template_id
                  THEN TRUE
             ELSE NestedWalk(d, parent, template_root, target_template_id)

\* _is_from_nested_template
IsFromNestedTemplate(d, element, template_root, target_template_id) ==
    NestedWalk(d, element, template_root, target_template_id)

RECURSIVE Descend(_, _, _)
\* find after find: the element the child names lead to from elem, or 0.
Descend(d, elem, names) ==
    IF names = <<>> \/ elem = 0 THEN elem
    ELSE Descend(d, FindChild(d, elem, Head(names)), Tail(names))

\* One of the sub-path branches of _find_elements_with_templateid: for every
\* matching element the element its child names lead to, as an attribute
\* match when attr is given (and the element carries it), as an element match
\* otherwise; nothing when wanted is FALSE.
SubPathResults(d, matching, names, attr, wanted, nested_check, target) ==
    LET leaf(e) == Descend(d, e, names)
        keeps(e) == /\ wanted
                    /\ leaf(e) # 0
                    /\ (attr # "" => attr \in d.attrs[leaf(e)])
                    /\ (nested_check =>
                           ~IsFromNestedTemplate(d, leaf(e), e, target))
        kept == SelectSeq(matching, keeps)
    IN  [i \in 1..Len(kept) |->
            IF attr # "" THEN AttrResult(leaf(kept[i]), attr)
            ELSE ElemResult(leaf(kept[i]))]

\* _find_elements_with_templateid, stored being what the last conversion
\* stored.
FindElementsWithTemplateId(d, stored, xpath) ==
    IF stored.templateid = None \/ stored.element_type = None THEN <<>>
    ELSE
    LET target == stored.templateid
        matching == SelectSeq(Tail(Iter(d, 1)), LAMBDA e :
                        d.tag[e] = stored.element_type /\ d.tid[e] = target)
        Sub(names, attr, wanted, nested_check) ==
            SubPathResults(d, matching, names, attr, wanted, nested_check, target)
    IN  IF HasStep(xpath, "", "code")
        THEN IF EndsWithAttr(xpath, "code")
             THEN Sub(<<"code">>, "code", TRUE, FALSE)
             ELSE Sub(<<"code">>, "", EndsWithElement(xpath, "code"), FALSE)
        ELSE IF HasStep(xpath, "", "value")
        THEN IF EndsWithAttr(xpath, "value")
             THEN Sub(<<"value">>, "value", TRUE, TRUE)
             ELSE IF EndsWithAttr(xpath, "code")
             THEN Sub(<<"value">>, "code", TRUE, TRUE)
             ELSE Sub(<<"value">>, "", EndsWithElement(xpath, "value"), TRUE)
        ELSE IF HasStep(xpath, "", "text")
        THEN Sub(<<"text">>, "", TRUE, FALSE)
        ELSE IF HasStep(xpath, "", "statusCode")
        THEN Sub(<<"statusCode">>,
                 IF EndsWithAttr(xpath, "code") THEN "code" ELSE "", TRUE, FALSE)
        ELSE IF HasStep(xpath, "", "methodCode") \/ HasStep(xpath, "cda", "methodCode")
        THEN Sub(<<"methodCode">>,
                 IF EndsWithAttr(xpath, "code") THEN "code" ELSE "", TRUE, FALSE)
        ELSE IF \/ HasSteps(xpath, "", "effectiveTime", "low")
                \/ HasSteps(xpath, "cda", "effectiveTime", "low")
        THEN Sub(<<"effectiveTime", "low">>,
                 IF EndsWithAttr(xpath, "value") THEN "value" ELSE "", TRUE, FALSE)
        ELSE IF \/ HasSteps(xpath, "", "author", "time")
                \/ HasSteps(xpath, "cda", "author", "time")
        THEN Sub(<<"author", "time">>,
                 IF EndsWithAttr(xpath, "value") THEN "value" ELSE "", TRUE, FALSE)
        ELSE ElemResults(matching)

\* The pairs <<name, text>> of names of the model in which text is a proper
\* part of name.
ProperParts == ProperPrefixes \cup {<<"observation", "obs">>}

\* The texts that are part of the namespace every tag begins with,
\* {urn:hl7-org:v3}.
UriParts == {"urn", "hl7", "org", "v3"}

\* child.tag.endswith(clean_part) or clean_part in child.tag
TagHasText(d, child, clean_part) ==
    \/ d.tag[child] = clean_part
    \/ <<d.tag[child], clean_part>> \in ProperParts
    \/ clean_part \in UriParts

RECURSIVE RecursiveFrom(_, _, _, _)
\* The loop of _find_elements_recursive from part i on.
RecursiveFrom(d, current_elements, parts, i) ==
    IF i > Len(parts) THEN current_elements
    ELSE IF parts[i].k = "empty"
         THEN RecursiveFrom(d, current_elements, parts, i + 1)
    ELSE LET next_elements ==
                 Flatten([c \in 1..Len(current_elements) |->
                     SelectSeq(Children(d, current_elements[c]), LAMBDA child :
                         parts[i].k = "el" /\ TagHasText(d, child, parts[i].n))])
         IN  IF next_elements = <<>> THEN <<>>
             ELSE RecursiveFrom(d, next_elements, parts, i + 1)

\* _find_elements_recursive
FindElementsRecursive(d, root, xpath) == RecursiveFrom(d, <<root>>, xpath, 1)

\* _find_elements_with_attributes
FindElementsWithAttributes(d, root, xpath) ==
    LET ai == LastAttrIdx(xpath)
        element_path == SubSeq(xpath, 1, ai - 1)
        found == FindAll(d, root, element_path)
        elements == IF found.ok THEN found.els
                    ELSE FindElementsRecursive(d, root, element_path)
    IN  IF ai = 0 \/ ai < Len(xpath) THEN <<>>
        ELSE AttrResults(d, elements, xpath[ai].n)

\* A variant of the fallbacks that goes to the recursive search whatever the
\* path holds.
FallbacksRecursiveOnly(d, stored, xpath) ==
    ElemResults(FindElementsRecursive(d, 1, xpath))

\* What the fallbacks of _find_elements_by_xpath return (lines 377-387).
Fallbacks(d, stored, xpath) ==
    IF stored.templateid # None
    THEN FindElementsWithTemplateId(d, stored, xpath)
    ELSE IF \E i \in 1..Len(xpath) : HasAt(xpath[i])
    THEN FindElementsWithAttributes(d, 1, xpath)
    ELSE ElemResults(FindElementsRecursive(d, 1, xpath))

\* Lines 369-387: the strategies _find_elements_by_xpath consults, in order:
\* findall always, and when it raised or found nothing exactly one of the
\* templateId search, the attribute split and the recursive search.
StrategiesTried(d, stored, xpath) ==
    LET direct == FindAll(d, 1, xpath)
    IN  <<"structural">> \o
        (IF direct.ok /\ direct.els # <<>> THEN <<>>
         ELSE IF stored.templateid # None THEN <<"templateid">>
         ELSE IF \E i \in 1..Len(xpath) : HasAt(xpath[i]) THEN <<"attribute">>
         ELSE <<"recursive">>)

\* A variant of _find_elements_by_xpath without the try around findall: a
\* path findall cannot compile raises out of the matcher.
FindElementsByXPathUnguarded(d, stored, xpath) ==
    LET direct == FindAll(d, 1, xpath)
    IN  IF ~direct.ok THEN [raised |-> TRUE, items |-> <<>>]
        ELSE IF direct.els # <<>>
        THEN [raised |-> FALSE, items |-> ElemResults(direct.els)]
        ELSE [raised |-> FALSE, items |-> Fallbacks(d, stored, xpath)]

\* _find_elements_by_xpath: the matches, and whether an exception left it.
FindElementsByXPath(d, stored, xpath) ==
    LET direct == FindAll(d, 1, xpath)
    IN  IF direct.ok /\ direct.els # <<>>
        THEN [raised |-> FALSE, items |-> ElemResults(direct.els)]
        ELSE [raised |-> FALSE, items |-> Fallbacks(d, stored, xpath)]

\* A variant of the not-found record that reports the converted path as the
\* original expression.
NotFoundRecordConverted(xpath, converted_xpath, entry) ==
    [original_xpath |-> converted_xpath, converted_xpath |-> converted_xpath,
     found |-> FALSE, node |-> 0, attr |-> "", element_path |-> None,
     entry |-> entry]

\* Lines 236-248: the record of an expression that matched nothing.  entry is
\* the position of the expression in the catalog (not a key of the dict).
NotFoundRecord(xpath, converted_xpath, entry) ==
    [original_xpath |-> xpath, converted_xpath |-> converted_xpath,
     found |-> FALSE, node |-> 0, attr |-> "", element_path |-> None,
     entry |-> entry]

RECURSIVE ElementPathWalk(_, _)
\* The while loop of _get_element_path from current: the tags collected, the
\* last one inserted first.
ElementPathWalk(d, current) ==
    IF current = 0 THEN <<>>
    ELSE ElementPathWalk(d, GetParent(d, current)) \o <<d.tag[current]>>

\* _get_element_path: the segments of the path it returns, each a tag without
\* its namespace.
GetElementPath(d, element) == ElementPathWalk(d, element)

\* Lines 198-233: the record of one match; is_attribute is attr # "".
\* element_path holds the segments of _get_element_path; for an attribute
\* match the code adds the segment @attr, which the field attr tells.
FoundRecord(d, xpath, converted_xpath, item, entry) ==
    [original_xpath |-> xpath, converted_xpath |-> converted_xpath,
     found |-> TRUE, node |-> item.node, attr |-> item.attr,
     element_path |-> GetElementPath(d, item.node), entry |-> entry]

\* A variant that records the first match only.
EntryRecordsFirstOnly(d, xpath, converted_xpath, matched, entry) ==
    IF matched.raised THEN <<>>
    ELSE IF matched.items # <<>>
    THEN <<FoundRecord(d, xpath, converted_xpath, matched.items[1], entry)>>
    ELSE <<NotFoundRecord(xpath, converted_xpath, entry)>>

\* A variant that closes the records of every expression with a not-found
\* record, matched or not.
EntryRecordsClosed(d, xpath, converted_xpath, matched, entry) ==
    IF matched.raised THEN <<>>
    ELSE [i \in 1..Len(matched.items) |->
             FoundRecord(d, xpath, converted_xpath, matched.items[i], entry)]
         \o <<NotFoundRecord(xpath, converted_xpath, entry)>>

\* Lines 195-253: the records one expression adds to the results: one per
\* match, one not-found record when nothing matched, none when the matcher
\* raised.
EntryRecords(d, xpath, converted_xpath, matched, entry) ==
    IF matched.raised THEN <<>>
    ELSE IF matched.items # <<>>
    THEN [i \in 1..Len(matched.items) |->
             FoundRecord(d, xpath, converted_xpath, matched.items[i], entry)]
    ELSE <<NotFoundRecord(xpath, converted_xpath, entry)>>

\* ------------------------------------------------------------------- state
VARIABLES
    doc,                \* the parsed document
    catalog,            \* xpath_entries: the raw expressions, in order
    template_id,        \* find_grouped_elements' template_id
    pc,                 \* where the running call stands
    template_elements,  \* find_grouped_elements: the located instances
    inst,               \* index (from 1) of the instance being processed
    ent,                \* index (from 1) of the next entry to process
    fields,             \* instance_data['fields'] of the current instance
    instances,          \* find_grouped_elements: the instances kept so far
    result,             \* the value a finished call returned
    current,            \* self._current_templateid, self._current_element_type
    fpos,               \* find_elements: index (from 1) of the current entry
    converted,          \* find_elements: converted_xpath of the current entry
    results,            \* find_elements: the records so far
    history,            \* what each conversion made so far returned and stored
    file,               \* xml_file: what ET.parse makes of it
    error,              \* the exception the call raised to its caller, or None
    other,              \* a second find_elements call on the same finder
    auto                \* find_elements_with_auto_grouping around the running call

\* What find_grouped_elements works on, and what find_elements works on.
gvars == <<template_id, template_elements, inst, ent, fields, instances>>
fvars == <<current, fpos, converted, results, history>>
pvars == <<file, error>>
svars == <<other, auto>>

vars == <<doc, catalog, pc, result, gvars, fvars, pvars, svars>>

\* A file ET.parse reads without raising, and no exception raised so far.
Parsed ==
    /\ file = "parsed"
    /\ error = None

\* A variant in which the failure of ET.parse is not raised to the caller.
ParseFailureSwallowed(f) == None

\* Lines 257-260 and 749-752: the message of the exception the call raises
\* when ET.parse raised ParseError (a malformed file) or FileNotFoundError (a
\* missing one); None when the file was parsed.
ParseFailure(f) ==
    IF f = "malformed" THEN "Error parsing XML file"
    ELSE IF f = "missing" THEN "XML file not found"
    ELSE None

\* Before the first conversion the finder has neither attribute, which
\* _has_templateid_predicate treats as None.
NoPredicate == [templateid |-> None, element_type |-> None]

\* The variables of find_elements while it does not run.
FIdle ==
    /\ current = NoPredicate
    /\ fpos = 0
    /\ converted = None
    /\ results = <<>>
    /\ history = <<>>

\* No second call runs on the finder.
NoOther ==
    [pc |-> "absent", catalog |-> <<>>, fpos |-> 0, converted |-> None,
     results |-> <<>>, result |-> None]

\* No call of find_elements_with_auto_grouping runs.
NoAuto ==
    [pc |-> "absent", entries |-> <<>>, groups |-> <<>>, gpos |-> 0,
     grouped_results |-> <<>>, result |-> None]

\* The finder serves one call only, made by the caller itself.
Unshared == other = NoOther /\ auto = NoAuto

\* The variables of find_grouped_elements while it does not run.
GIdle ==
    /\ template_id = None
    /\ template_elements = <<>>
    /\ inst = 0
    /\ ent = 0
    /\ fields = <<>>
    /\ instances = <<>>

\* ---------------------------------------------------------------- inputs
TemplateIds == {"T1", "T2"}

\* The kinds of element below the document element: local name, templateId
\* and attribute names.
NodeKinds ==
    { [tag |-> "observation", tid |-> "T1", attrs |-> {}],
      [tag |-> "act", tid |-> "T2", attrs |-> {}],
      [tag |-> "act", tid |-> None, attrs |-> {}],
      [tag |-> "code", tid |-> None, attrs |-> {"code"}] }

\* The parent vectors of the ordered trees of 1 + MaxNodes nodes, the nodes
\* numbered in document order: a node's parent is the node before it or one
\* of that node's ancestors.
RECURSIVE AncestorsOrSelf(_, _)
AncestorsOrSelf(par, n) ==
    IF n = 0 THEN {} ELSE {n} \cup AncestorsOrSelf(par, par[n])

RECURSIVE Shapes(_)
Shapes(k) ==
    IF k = 1 THEN {<<0>>}
    ELSE UNION {{Append(par, q) : q \in AncestorsOrSelf(par, k - 1)} :
                par \in Shapes(k - 1)}

\* The documents of count elements of the given kinds below the document
\* element.
DocsFrom(kinds, count) ==
    { [parent |-> par,
       tag |-> <<"ClinicalDocument">> \o [i \in 1..count |-> ks[i].tag],
       tid |-> <<None>> \o [i \in 1..count |-> ks[i].tid],
       attrs |-> <<{}>> \o [i \in 1..count |-> ks[i].attrs]] :
      par \in Shapes(count + 1), ks \in [1..count -> kinds] }

DocsOf(count) == DocsFrom(NodeKinds, count)

\* The template step every expression of a T1 group begins with.
T1Step == ElT("observation", "T1")

\* The expressions of the catalogs.
Exprs ==
    { <<T1Step, El("code")>>,
      <<T1Step, El("code"), At("code")>>,
      <<T1Step, El("act"), El("code")>>,
      <<T1Step, ElT("act", "T2"), El("code"), At("code")>>,
      <<T1Step>>,
      <<T1Step, At("code")>> }

\* The expressions of the catalogs of several entries.
CatalogExprs ==
    { <<T1Step, El("code"), At("code")>>,
      <<T1Step, El("act"), El("code"), At("code")>>,
      <<T1Step, ElT("act", "T2"), El("code")>>,
      <<T1Step>> }

Catalogs == UNION {[1..k -> CatalogExprs] : k \in 1..MaxCatalog}

\* -------------------------------------------------- find_grouped_elements
\* The state in which find_grouped_elements starts on a parsed document.
GStart(docs, catalogs) ==
    /\ doc \in docs
    /\ catalog \in catalogs
    /\ template_id = "T1"
    /\ pc = "start"
    /\ template_elements = <<>>
    /\ inst = 0
    /\ ent = 0
    /\ fields = <<>>
    /\ instances = <<>>
    /\ result = None
    /\ FIdle
    /\ Parsed
    /\ Unshared

\* Lines 681-691: locate the instances of the template.
GLocate ==
    /\ pc = "start"
    /\ ParseFailure(file) = None
    /\ template_elements' =
           IF template_id # None /\ template_id # "ungrouped"
           THEN FindTemplateInstances(doc, template_id) ELSE <<>>
    /\ inst' = 1
    /\ ent' = 1
    /\ pc' = IF template_elements' # <<>> THEN "entry" ELSE "return"
    /\ UNCHANGED <<doc, catalog, template_id, fields, instances, result, fvars, pvars, svars>>

\* A variant of the assignment that keeps the value a key already has.
DictSetFirstWins(dict, key, value) ==
    [k \in DOMAIN dict \cup {key} |-> IF k \in DOMAIN dict THEN dict[k] ELSE value]

\* d[key] = value on a dict kept as a function.
DictSet(dict, key, value) ==
    [k \in DOMAIN dict \cup {key} |-> IF k = key THEN value ELSE dict[k]]

\* Lines 702-718: one expression applied within the current instance.
GApply ==
    /\ pc = "entry"
    /\ ent <= Len(catalog)
    /\ LET xpath == catalog[ent]
           relative_xpath == GetRelativeXPath(xpath)
           field_results == FindWithinTemplateInstance(
                                doc, template_elements[inst], relative_xpath)
       IN  fields' = IF field_results # <<>>
                     THEN DictSet(fields, ExtractFieldName(xpath), field_results)
                     ELSE fields
    /\ ent' = ent + 1
    /\ UNCHANGED <<doc, catalog, template_id, pc, template_elements, inst,
                   instances, result, fvars, pvars, svars>>

\* A variant that appends the instance whether or not it has data.
KeepInstanceAlways(kept, number, fs) ==
    Append(kept, [instance_number |-> number, fields |-> fs])

\* instances.append(instance_data) when the instance has some data.
KeepInstance(kept, number, fs) ==
    IF DOMAIN fs # {}
    THEN Append(kept, [instance_number |-> number, fields |-> fs])
    ELSE kept

\* Lines 693-699, 720-722: the instance is kept if it has fields, and the loop
\* goes on to the next instance.
GEndInstance ==
    /\ pc = "entry"
    /\ ent > Len(catalog)
    /\ instances' = KeepInstance(instances, inst, fields)
    /\ fields' = <<>>
    /\ ent' = 1
    /\ inst' = inst + 1
    /\ pc' = IF inst' <= Len(template_elements) THEN "entry" ELSE "return"
    /\ UNCHANGED <<doc, catalog, template_id, template_elements, result, fvars, pvars, svars>>

\* Lines 741-747: the returned group.
GReturn ==
    /\ pc = "return"
    /\ result' = [template_id |-> template_id,
                  xpath_expressions |-> catalog,
                  instance_count |-> Len(instances),
                  instances |-> instances]
    /\ pc' = "done"
    /\ UNCHANGED <<doc, catalog, template_id, template_elements, inst, ent,
                   fields, instances, fvars, pvars, svars>>

GNext == GLocate \/ GApply \/ GEndInstance \/ GReturn

\* A group of one expression, over the documents of 1 + MaxNodes elements.
GInit == GStart(DocsOf(MaxNodes), {<<e>> : e \in Exprs})

SpecGrouped == GInit /\ [][GNext]_vars

\* A group of up to MaxCatalog expressions, over the documents of MaxNodes
\* elements.
CInit == GStart(DocsOf(MaxNodes - 1), Catalogs)

SpecCatalog == CInit /\ [][GNext]_vars

\* The kinds of the documents whose T1 occurrences may carry an attribute.
RootKinds ==
    NodeKinds \cup {[tag |-> "observation", tid |-> "T1", attrs |-> {"code"}]}

\* The expressions that resolve to the instance root, and one that does not.
RootExprs ==
    { <<T1Step>>,
      <<T1Step, At("code")>>,
      <<T1Step, El("code"), At("code")>> }

\* A group of one such expression, over the documents of MaxNodes elements
\* of these kinds.
RInit == GStart(DocsFrom(RootKinds, MaxNodes - 1), {<<e>> : e \in RootExprs})

SpecRoot == RInit /\ [][GNext]_vars

\* The kinds of the documents whose acts and T1 occurrences may carry an
\* attribute.
KeyKinds ==
    RootKinds \cup {[tag |-> "act", tid |-> None, attrs |-> {"code"}]}

\* Expressions whose field names take each branch of _extract_field_name:
\* with and without a trailing attribute, with a segment before the template
\* step, with generic names among the last segments, with generic names only.
KeyExprs ==
    { <<El("entry"), T1Step, El("code"), At("code")>>,
      <<T1Step, El("code"), At("code")>>,
      <<El("entry"), T1Step, El("act"), El("code")>>,
      <<T1Step, El("act"), El("code")>>,
      <<T1Step, At("code")>>,
      <<T1Step, El("act"), At("code")>>,
      <<T1Step>>,
      <<T1Step, El("act")>> }

\* A group of one such expression, over the documents of MaxNodes - 1
\* elements of these kinds.
KInit == GStart(DocsFrom(KeyKinds, MaxNodes - 2), {<<e>> : e \in KeyExprs})

SpecKeys == KInit /\ [][GNext]_vars

\* Expressions of one group of which three derive the key code and one the
\* key code/code.
CollideExprs ==
    { <<T1Step, El("code")>>,
      <<T1Step, At("code")>>,
      <<T1Step, El("act"), El("code")>>,
      <<T1Step, El("code"), At("code")>> }

\* A group of MaxCatalog such expressions, over the documents of
\* MaxNodes - 1 elements.
XInit == GStart(DocsFrom(KeyKinds, MaxNodes - 2), [1..MaxCatalog -> CollideExprs])

SpecCollide == XInit /\ [][GNext]_vars

\* The groups of an element expression and the same expression with an
\* attribute access added, for a path of one step and a path of two.
PairCatalogs ==
    { <<Append(<<T1Step>>, El("code")),
        <<T1Step, El("code"), At("code")>>>>,
      <<<<T1Step, El("act"), El("code")>>,
        <<T1Step, El("act"), El("code"), At("code")>>>> }

PairInit == GStart(DocsOf(MaxNodes), PairCatalogs)

SpecPair == PairInit /\ [][GNext]_vars

\* ------------------------------------------------------------ find_elements
\* Elements below the document element in the documents of the flat runs.
FlatNodes == 2

\* The expressions of the flat catalogs.
FlatExprs ==
    { <<El("observation"), El("code")>>,
      <<El("observation"), El("code"), At("code")>>,
      <<El("ClinicalDocument"), El("act"), El("code")>>,
      <<ElT("act", "T2"), El("code"), At("code")>>,
      <<ElT("act", "T2"), El("code")>>,
      <<ElT("observation", "T1")>>,
      <<EmptyPart, El("ClinicalDocument"), El("act")>>,
      <<El("obs"), El("code")>> }

FlatCatalogs == UNION {[1..k -> FlatExprs] : k \in 1..MaxCatalog}

\* The state in which find_elements starts on a parsed document.
FInit ==
    /\ doc \in DocsOf(FlatNodes)
    /\ catalog \in FlatCatalogs
    /\ pc = "convert"
    /\ result = None
    /\ current = NoPredicate
    /\ fpos = 1
    /\ converted = None
    /\ results = <<>>
    /\ history = <<>>
    /\ GIdle
    /\ Parsed
    /\ Unshared

\* An xpath value that is not a string (None, a number), as a path of one
\* part that is no text.
NotAString == <<[k |-> "nonstring", ns |-> "", n |-> "", p |-> "", v |-> ""]>>

\* Line 287: re.search raises TypeError on a value that is not a string,
\* before the conversion has stored anything.
ConvertRaises(xpath) == xpath = NotAString

\* Lines 188-192: the next expression is converted.
FConvert ==
    /\ pc = "convert"
    /\ ParseFailure(file) = None
    /\ fpos <= Len(catalog)
    /\ ~ConvertRaises(catalog[fpos])
    /\ converted' = ConvertXPathForET(catalog[fpos])
    /\ current' = StoredPredicate(current, catalog[fpos])
    /\ history' = Append(history, [xpath |-> catalog[fpos],
                                   converted |-> converted',
                                   stored |-> current'])
    /\ pc' = "match"
    /\ UNCHANGED <<doc, catalog, result, fpos, results, gvars, pvars, svars>>

\* A variant in which the matching takes the template predicate from the
\* expression it matches, not from the finder.
PredicateOfExpression(stored, xpath) == StoredPredicate(NoPredicate, xpath)

\* Lines 389-398: the matching reads self._current_templateid and
\* self._current_element_type as they are when it runs; the expression is
\* not looked at again.
PredicateAtMatch(stored, xpath) == stored

\* Lines 195-253: the converted expression is matched and its records are
\* added.
FMatch ==
    /\ pc = "match"
    /\ results' = results \o
           EntryRecords(doc, catalog[fpos], converted,
                        FindElementsByXPath(
                            doc, PredicateAtMatch(current, catalog[fpos]),
                            converted), fpos)
    /\ fpos' = fpos + 1
    /\ pc' = "convert"
    /\ UNCHANGED <<doc, catalog, result, current, converted, history, gvars, pvars, svars>>

\* Line 255: the results are returned.
FReturn ==
    /\ pc = "convert"
    /\ ParseFailure(file) = None
    /\ fpos > Len(catalog)
    /\ result' = results
    /\ pc' = "done"
    /\ UNCHANGED <<doc, catalog, fvars, gvars, pvars, svars>>

FNext == FConvert \/ FMatch \/ FReturn

SpecFlat == FInit /\ [][FNext]_vars

\* ------------------------------------------- two calls sharing one finder
\* A second call of find_elements that runs on the same finder object: its
\* locals (the catalog, the position, converted_xpath, the records) are its
\* own, self._current_templateid and self._current_element_type are the
\* finder's.
OtherStart(entries) ==
    [pc |-> "convert", catalog |-> entries, fpos |-> 1, converted |-> None,
     results |-> <<>>, result |-> None]

\* Line 192 in the second call.
OConvert ==
    /\ other.pc = "convert"
    /\ other.fpos <= Len(other.catalog)
    /\ LET xpath == other.catalog[other.fpos]
       IN  /\ other' = [other EXCEPT !.converted = ConvertXPathForET(xpath),
                                     !.pc = "match"]
           /\ current' = StoredPredicate(current, xpath)
           /\ history' = Append(history, [xpath |-> xpath,
                                          converted |-> other'.converted,
                                          stored |-> current'])
    /\ UNCHANGED <<doc, catalog, pc, result, fpos, converted, results, gvars,
                   pvars, auto>>

\* Lines 195-253 in the second call.
OMatch ==
    /\ other.pc = "match"
    /\ LET xpath == other.catalog[other.fpos]
       IN  other' = [other EXCEPT
               !.results = other.results \o
                   EntryRecords(doc, xpath, other.converted,
                                FindElementsByXPath(
                                    doc, PredicateAtMatch(current, xpath),
                                    other.converted), other.fpos),
               !.fpos = other.fpos + 1,
               !.pc = "convert"]
    /\ UNCHANGED <<doc, catalog, pc, result, fvars, gvars, pvars, auto>>

\* Line 255 in the second call.
OReturn ==
    /\ other.pc = "convert"
    /\ other.fpos > Len(other.catalog)
    /\ other' = [other EXCEPT !.result = other.results, !.pc = "done"]
    /\ UNCHANGED <<doc, catalog, pc, result, fvars, gvars, pvars, auto>>

\* Two calls of find_elements on one finder and one document, each with a
\* catalog of one expression, their steps interleaved in any order.
SInit ==
    /\ doc \in DocsOf(FlatNodes)
    /\ catalog \in {<<e>> : e \in FlatExprs}
    /\ other \in {OtherStart(<<e>>) : e \in FlatExprs}
    /\ auto = NoAuto
    /\ pc = "convert"
    /\ result = None
    /\ current = NoPredicate
    /\ fpos = 1
    /\ converted = None
    /\ results = <<>>
    /\ history = <<>>
    /\ GIdle
    /\ Parsed

SNext == FNext \/ OConvert \/ OMatch \/ OReturn

SpecShared == SInit /\ [][SNext]_vars

\* ------------------------------------------ find_elements_with_auto_grouping
\* A variant that takes the identifier of the last templateId predicate.
TemplateOfEntryLast(xpath) ==
    LET is == {i \in 1..Len(xpath) :
                  \/ xpath[i].p = "tid"
                  \/ xpath[i].k = "el" /\ xpath[i].n = "templateId"
                        /\ xpath[i].p = "attr"}
    IN  IF is = {} THEN None
        ELSE xpath[CHOOSE i \in is : \A j \in is : j <= i].v

\* Line 640: the identifier in the first templateId[@root='...'] of the
\* expression, or None.
TemplateOfEntry(xpath) ==
    LET is == {i \in 1..Len(xpath) :
                  \/ xpath[i].p = "tid"
                  \/ xpath[i].k = "el" /\ xpath[i].n = "templateId"
                        /\ xpath[i].p = "attr"}
    IN  IF is = {} THEN None
        ELSE xpath[CHOOSE i \in is : \A j \in is : i <= j].v

\* Lines 645-651: the entry is added to the group of its identifier, which
\* is created at the end of the dict when it is new.
AddToGroup(groups, id, entry) ==
    IF \E g \in 1..Len(groups) : groups[g].id = id
    THEN [g \in 1..Len(groups) |->
             IF groups[g].id = id
             THEN [groups[g] EXCEPT !.entries = Append(@, entry)]
             ELSE groups[g]]
    ELSE Append(groups, [id |-> id, entries |-> <<entry>>])

RECURSIVE GroupLoop(_, _, _, _)
\* Lines 636-657: the loop over the entries from position k on, and the
\* group ungrouped added last when it has entries.
GroupLoop(entries, k, groups, ungrouped) ==
    IF k > Len(entries)
    THEN IF ungrouped # <<>>
         THEN Append(groups, [id |-> "ungrouped", entries |-> ungrouped])
         ELSE groups
    ELSE IF TemplateOfEntry(entries[k]) # None
    THEN GroupLoop(entries, k + 1,
                   AddToGroup(groups, TemplateOfEntry(entries[k]), entries[k]),
                   ungrouped)
    ELSE GroupLoop(entries, k + 1, groups, Append(ungrouped, entries[k]))

\* auto_group_xpath_entries: the groups in the order of the dict, each an
\* identifier and its entries.
AutoGroupXPathEntries(entries) == GroupLoop(entries, 1, <<>>, <<>>)

\* The state of find_elements_with_auto_grouping when it has called
\* find_elements on all its entries (line 608).
AutoStart(entries) ==
    [pc |-> "flat", entries |-> entries, groups |-> <<>>, gpos |-> 0,
     grouped_results |-> <<>>, result |-> None]

\* Line 611: find_elements has returned and the entries are grouped.
AGroup ==
    /\ auto.pc = "flat"
    /\ pc = "done"
    /\ auto' = [auto EXCEPT !.groups = AutoGroupXPathEntries(auto.entries),
                            !.gpos = 1,
                            !.pc = "groups"]
    /\ UNCHANGED <<doc, catalog, pc, result, gvars, fvars, pvars, other>>

\* Lines 616-617: find_grouped_elements is called on the next group.
AStartGroup ==
    /\ auto.pc = "groups"
    /\ auto.gpos <= Len(auto.groups)
    /\ catalog' = auto.groups[auto.gpos].entries
    /\ template_id' = auto.groups[auto.gpos].id
    /\ pc' = "start"
    /\ template_elements' = <<>>
    /\ inst' = 0
    /\ ent' = 0
    /\ fields' = <<>>
    /\ instances' = <<>>
    /\ result' = None
    /\ auto' = [auto EXCEPT !.pc = "call"]
    /\ UNCHANGED <<doc, fvars, pvars, other>>

\* Lines 618-619: the group is kept when it has instances.
AEndGroup ==
    /\ auto.pc = "call"
    /\ pc = "done"
    /\ auto' = [auto EXCEPT
           !.grouped_results = IF result.instances # <<>>
                               THEN Append(@, result) ELSE @,
           !.gpos = @ + 1,
           !.pc = "groups"]
    /\ UNCHANGED <<doc, catalog, pc, result, gvars, fvars, pvars, other>>

\* Line 621: the groups kept are returned.
AReturn ==
    /\ auto.pc = "groups"
    /\ auto.gpos > Len(auto.groups)
    /\ auto' = [auto EXCEPT !.result = auto.grouped_results, !.pc = "done"]
    /\ UNCHANGED <<doc, catalog, pc, result, gvars, fvars, pvars, other>>

\* The expressions of the catalogs that are grouped: two of T1, one of T2,
\* one of T1 with a second predicate of T2 further on, and one without
\* predicate.
AutoExprs ==
    { <<ElT("observation", "T1"), El("code"), At("code")>>,
      <<ElT("observation", "T1")>>,
      <<ElT("act", "T2")>>,
      <<ElT("observation", "T1"), ElT("act", "T2"), El("code"), At("code")>>,
      <<El("observation"), El("code")>> }

AutoCatalogs == UNION {[1..k -> AutoExprs] : k \in 1..MaxCatalog}

\* A call of find_elements_with_auto_grouping on a parsed document.
AInit ==
    /\ doc \in DocsOf(FlatNodes)
    /\ catalog \in AutoCatalogs
    /\ auto = AutoStart(catalog)
    /\ other = NoOther
    /\ pc = "convert"
    /\ result = None
    /\ current = NoPredicate
    /\ fpos = 1
    /\ converted = None
    /\ results = <<>>
    /\ history = <<>>
    /\ GIdle
    /\ file = "parsed"
    /\ error = None

ANext == FNext \/ GNext \/ AGroup \/ AStartGroup \/ AEndGroup \/ AReturn

SpecAuto == AInit /\ [][ANext]_vars

\* ---------------------------------------------------- _convert_xpath_for_et
\* Conversions one finder makes in a row.
MaxConversions == 3

\* Expressions that exercise the branches of the conversion: a step with an
\* inline attribute predicate, a name outside the vocabulary, a leading name
\* that begins with a search element, root-anchored paths, a search element
\* outside the vocabulary and a search element that does not lead.
ConvExprs ==
    { <<ElA("id", "x")>>,
      <<El("ClinicalDocument"), ElA("id", "x")>>,
      <<El("foo"), El("code")>>,
      <<El("action"), El("code")>>,
      <<EmptyPart, El("act"), El("code")>>,
      <<El("ClinicalDocument"), El("act"), El("code")>>,
      <<El("encounter"), El("code")>>,
      <<El("entry"), El("act")>> }

\* The expressions a finder converts.
AllExprs == FlatExprs \cup Exprs \cup CatalogExprs \cup ConvExprs

\* A new finder, before any conversion.
ConvInit ==
    /\ doc \in DocsOf(0)
    /\ catalog = <<>>
    /\ pc = "conversions"
    /\ result = None
    /\ FIdle
    /\ GIdle
    /\ Parsed
    /\ Unshared

\* One call of _convert_xpath_for_et on the finder, whatever it converted
\* before.
Convert ==
    /\ pc = "conversions"
    /\ Len(history) < MaxConversions
    /\ \E xpath \in AllExprs :
        /\ converted' = ConvertXPathForET(xpath)
        /\ current' = StoredPredicate(current, xpath)
        /\ history' = Append(history, [xpath |-> xpath,
                                       converted |-> converted',
                                       stored |-> current'])
    /\ UNCHANGED <<doc, catalog, pc, result, fpos, results, gvars, pvars, svars>>

ConvNext == Convert

SpecConvert == ConvInit /\ [][ConvNext]_vars

\* ------------------------------------------- find_elements, failing entries
\* A variant in which the loop over the entries ends at the first failure.
BreakAfterFailure(pos, entries) == Len(entries) + 1

\* Line 253: continue, the loop goes on with the entry after the failed one.
ContinueAfterFailure(pos, entries) == pos + 1

\* Lines 251-253: the conversion of the entry raised; the exception is caught
\* and printed, nothing is recorded, and the loop continues.
FSkip ==
    /\ pc = "convert"
    /\ ParseFailure(file) = None
    /\ fpos <= Len(catalog)
    /\ ConvertRaises(catalog[fpos])
    /\ fpos' = ContinueAfterFailure(fpos, catalog)
    /\ UNCHANGED <<doc, catalog, pc, result, current, converted, results,
                   history, gvars, pvars, svars>>

\* The entries of the catalogs with failing entries.
FaultyExprs ==
    { <<El("observation"), El("code")>>,
      <<ElT("observation", "T1")>>,
      <<El("act"), El("code"), At("code")>>,
      NotAString }

\* Catalogs long enough to hold a failing entry between two others.
FaultyCatalogs == UNION {[1..k -> FaultyExprs] : k \in 1..(MaxCatalog + 1)}

FaultyInit ==
    /\ doc \in DocsOf(FlatNodes)
    /\ catalog \in FaultyCatalogs
    /\ pc = "convert"
    /\ result = None
    /\ current = NoPredicate
    /\ fpos = 1
    /\ converted = None
    /\ results = <<>>
    /\ history = <<>>
    /\ GIdle
    /\ Parsed
    /\ Unshared

FaultyNext == FNext \/ FSkip

SpecFaulty == FaultyInit /\ [][FaultyNext]_vars

\* ----------------------------------------------------------------- ET.parse
\* What ET.parse can make of xml_file.
Files == {"parsed", "malformed", "missing"}

\* What doc holds while no tree was parsed: nothing the call ever reads.
NoTree == CHOOSE d \in DocsOf(0) : TRUE

\* Lines 673-674, 749-752: ET.parse raises in find_grouped_elements and the
\* call raises to its caller.
GParseFails ==
    /\ pc = "start"
    /\ ParseFailure(file) # None
    /\ error' = ParseFailure(file)
    /\ pc' = "raised"
    /\ UNCHANGED <<doc, catalog, result, gvars, fvars, file, svars>>

\* Lines 178-179, 257-260: ET.parse raises in find_elements and the call
\* raises to its caller.
FParseFails ==
    /\ pc = "convert"
    /\ ParseFailure(file) # None
    /\ error' = ParseFailure(file)
    /\ pc' = "raised"
    /\ UNCHANGED <<doc, catalog, result, gvars, fvars, file, svars>>

\* A call of find_elements or of find_grouped_elements on a file of any kind.
PInit ==
    /\ file \in Files
    /\ error = None
    /\ Unshared
    /\ doc \in (IF file = "parsed" THEN DocsOf(FlatNodes) ELSE {NoTree})
    /\ result = None
    /\ \/ /\ catalog \in FlatCatalogs
          /\ pc = "convert"
          /\ current = NoPredicate
          /\ fpos = 1
          /\ converted = None
          /\ results = <<>>
          /\ history = <<>>
          /\ GIdle
       \/ /\ catalog \in Catalogs
          /\ template_id = "T1"
          /\ pc = "start"
          /\ template_elements = <<>>
          /\ inst = 0
          /\ ent = 0
          /\ fields = <<>>
          /\ instances = <<>>
          /\ FIdle

PNext == GNext \/ FNext \/ GParseFails \/ FParseFails

SpecParse == PInit /\ [][PNext]_vars

\* =========================================================== the properties
Subtree(d, n) == SeqToSet(Iter(d, n))

\* The elements a list of matches refers to.
ResultNodes(rs) == {rs[i].node : i \in 1..Len(rs)}

\* The elements reported in any field of an instance.
InstanceNodes(instance) ==
    UNION {ResultNodes(instance.fields[key]) : key \in DOMAIN instance.fields}

\* The instances of the returned group that carry ordinal k.
InstancesNumbered(k) ==
    {i \in 1..Len(result.instances) : result.instances[i].instance_number = k}

\* The name of the element the relative path of an expression ends at, or
\* None when the expression resolves to the instance root.
TargetName(xpath) ==
    LET rel == SelectSeq(GetRelativeXPath(xpath), LAMBDA q : q.k = "el")
    IN  IF rel = <<>> THEN None ELSE rel[Len(rel)].n

\* The occurrences of a template other than root's that lie below root.
NestedOtherOccurrences(d, root) ==
    {q \in Subtree(d, root) \ {root} :
        HasTemplateId(d, q) /\ d.tid[q] # d.tid[root]}

\* Elements named name exist below root, and every one of them lies inside
\* an occurrence of another template nested below root.
OnlyInsideNested(d, root, name) ==
    LET xs == {x \in Subtree(d, root) \ {root} : d.tag[x] = name}
    IN  /\ xs # {}
        /\ \A x \in xs : \E q \in NestedOtherOccurrences(d, root) :
               x \in Subtree(d, q)

\* C1 (as claimed): scope isolation.  When the element a T1 field expression
\* targets exists below an occurrence R of T1 only inside occurrences of
\* another template nested in R, the expression yields no match for R,
\* whatever its form, so R is not among the instances of the group.
C1_ScopeIsolation ==
    pc = "done" =>
        \A k \in 1..Len(template_elements) :
            (/\ TargetName(catalog[1]) # None
             /\ OnlyInsideNested(doc, template_elements[k], TargetName(catalog[1])))
            => InstancesNumbered(k) = {}

\* C10 (as claimed): for one expression, no element is reported in the fields
\* of two different instances of the template.
C10_OneInstancePerNode ==
    pc = "done" =>
        \A i, j \in 1..Len(result.instances) :
            i # j => InstanceNodes(result.instances[i])
                         \cap InstanceNodes(result.instances[j]) = {}

\* Two occurrences neither of which is an ancestor of the other.
Apart(d, a, b) == a \notin Subtree(d, b) /\ b \notin Subtree(d, a)

\* The matches the returned group holds for the occurrence with ordinal k
\* under the field key of expression xpath (none when the instance is absent).
ReportedFor(k, xpath) ==
    IF InstancesNumbered(k) = {} THEN <<>>
    ELSE LET instance == result.instances[CHOOSE i \in InstancesNumbered(k) : TRUE]
         IN  IF ExtractFieldName(xpath) \in DOMAIN instance.fields
             THEN instance.fields[ExtractFieldName(xpath)] ELSE <<>>

\* The document with the subtree of r emptied of everything an expression
\* could match: its elements renamed, their templateIds and attributes gone.
Neutralise(d, r) ==
    [d EXCEPT
       !.tag = [n \in NodesOf(d) |-> IF n \in Subtree(d, r) THEN "text" ELSE d.tag[n]],
       !.tid = [n \in NodesOf(d) |-> IF n \in Subtree(d, r) THEN None ELSE d.tid[n]],
       !.attrs = [n \in NodesOf(d) |-> IF n \in Subtree(d, r) THEN {} ELSE d.attrs[n]]]

RECURSIVE OwnChain(_, _, _, _)
\* The elements reached from the elements of from by the child steps
\* names[i..], through elements that are not themselves template occurrences.
OwnChain(d, from, names, i) ==
    IF i > Len(names) THEN from
    ELSE OwnChain(d, {c \in NodesOf(d) : /\ d.parent[c] \in from
                                        /\ d.tag[c] = names[i]
                                        /\ ~HasTemplateId(d, c)},
                  names, i + 1)

\* An occurrence's own X for a predicate-free expression: the elements its
\* relative path names step by step from the root downwards, that carry the
\* attribute when the expression ends in one.
OwnX(d, root, xpath) ==
    LET rel == GetRelativeXPath(xpath)
        els == SelectSeq(rel, LAMBDA q : q.k = "el")
        ends == OwnChain(d, {root}, [i \in 1..Len(els) |-> els[i].n], 1)
    IN  IF rel # <<>> /\ rel[Len(rel)].k = "at"
        THEN {x \in ends : rel[Len(rel)].n \in d.attrs[x]}
        ELSE ends

\* C2: sibling independence.  (a) Every match of an instance lies in the
\* subtree of the instance's own root; and for two occurrences of T1 that are
\* apart, (b) an occurrence that holds its own X reports it, and (c) what is
\* reported for one is what is reported for it in the document in which
\* the other holds nothing.
C2_SiblingIndependence ==
    pc = "done" =>
        /\ \A i \in 1..Len(result.instances) :
               InstanceNodes(result.instances[i]) \subseteq
                   Subtree(doc, template_elements[result.instances[i].instance_number])
        /\ \A k, o \in 1..Len(template_elements) :
               Apart(doc, template_elements[k], template_elements[o]) =>
                   /\ (~HasTemplateIdText(GetRelativeXPath(catalog[1])) =>
                          OwnX(doc, template_elements[k], catalog[1]) \subseteq
                              ResultNodes(ReportedFor(k, catalog[1])))
                   /\ ReportedFor(k, catalog[1]) =
                          FindWithinTemplateInstance(
                              Neutralise(doc, template_elements[o]),
                              template_elements[k], GetRelativeXPath(catalog[1]))

\* C2 witness: two occurrences of T1 that are apart, each with its own X,
\* each reported in its own instance.
C2_Witness ==
    /\ pc = "done"
    /\ Len(template_elements) = 2
    /\ Apart(doc, template_elements[1], template_elements[2])
    /\ ~HasTemplateIdText(GetRelativeXPath(catalog[1]))
    /\ TargetName(catalog[1]) # None
    /\ \A k \in 1..2 :
           /\ OwnX(doc, template_elements[k], catalog[1]) # {}
           /\ ResultNodes(ReportedFor(k, catalog[1])) =
                  OwnX(doc, template_elements[k], catalog[1])

\* The expression of the grouped extraction scenario,
\* observation[templateId[@root='T1']]/code/@code, and its field key code/code.
CodeAttrExpr == <<T1Step, El("code"), At("code")>>
CodeCodeKey == [sep |-> "/", segs |-> <<Seg("code"), Seg("code")>>]

\* The direct code children of an element that carry the attribute code.
DirectCodes(d, root) ==
    {c \in NodesOf(d) : d.parent[c] = root /\ d.tag[c] = "code"
                         /\ "code" \in d.attrs[c]}

\* x lies below root inside an element below root that has a templateId.
InsideNested(d, x, root) ==
    \E q \in AncestorsOrSelf(d.parent, x) :
        q # root /\ root \in AncestorsOrSelf(d.parent, q) /\ HasTemplateId(d, q)

\* The code elements with the attribute code below root that lie in no nested
\* occurrence.
OwnCodes(d, root) ==
    {x \in Subtree(d, root) \ {root} :
        d.tag[x] = "code" /\ "code" \in d.attrs[x] /\ ~InsideNested(d, x, root)}

\* The scenario: the occurrences of T1 are observations, none nested in
\* another, each with one direct child code carrying the attribute code.
Scenario(d, roots) ==
    /\ roots # <<>>
    /\ \A i \in 1..Len(roots) :
           /\ d.tag[roots[i]] = "observation"
           /\ Cardinality(DirectCodes(d, roots[i])) = 1
           /\ \A j \in 1..Len(roots) : i # j => Apart(d, roots[i], roots[j])

\* The scenario's result: N instances, the i-th with ordinal i and, under
\* code/code, the one attribute match on the i-th occurrence's code child.
ScenarioResult(d, roots) ==
    /\ result.instance_count = Len(roots)
    /\ Len(result.instances) = Len(roots)
    /\ \A i \in 1..Len(roots) :
           /\ result.instances[i].instance_number = i
           /\ CodeCodeKey \in DOMAIN result.instances[i].fields
           /\ \E c \in DirectCodes(d, roots[i]) :
                  result.instances[i].fields[CodeCodeKey] = <<AttrResult(c, "code")>>

DocBefore(d, a, b) ==
    \/ (a # b /\ a \in AncestorsOrSelf(d.parent, b))
    \/ \E x \in AncestorsOrSelf(d.parent, a), y \in AncestorsOrSelf(d.parent, b) :
          /\ x # y /\ d.parent[x] = d.parent[y]
          /\ \E i, j \in 1..Len(Children(d, d.parent[x])) :
                /\ i < j
                /\ Children(d, d.parent[x])[i] = x
                /\ Children(d, d.parent[x])[j] = y

C5_DroppedEmpty ==
    pc = "done" =>
        /\ \A i \in 1..Len(result.instances) :
               DOMAIN result.instances[i].fields # {}
        /\ \A k \in 1..Len(template_elements) :
               (\A e \in 1..Len(catalog) :
                    FindWithinTemplateInstance(doc, template_elements[k],
                        GetRelativeXPath(catalog[e])) = <<>>)
                   <=> InstancesNumbered(k) = {}
        /\ result.instance_count = Len(result.instances)

\* C5 witness: a group of two expressions over two occurrences, one dropped
\* as empty and one kept.
C5_Witness ==
    /\ pc = "done"
    /\ Len(catalog) = 2
    /\ Len(template_elements) = 2
    /\ result.instance_count = 1


\* ------------------------------------------------------------- flat results
\* find_elements has returned.
FlatDone == pc = "done" /\ fpos > Len(catalog)

\* The records the k-th expression of the catalog contributed.
RecordsOf(k) == SelectSeq(result, LAMBDA r : r.entry = k)

C7_NotFoundFidelity ==
    FlatDone =>
        \A i \in 1..Len(result) :
            ~result[i].found
                => result[i].original_xpath = catalog[result[i].entry]

\* A not-found record whose conversion dropped the root step, qualified the
\* names and promoted the path.
C7_Witness ==
    /\ FlatDone
    /\ \E i \in 1..Len(result) :
           /\ ~result[i].found
           /\ catalog[result[i].entry]
                  = <<El("ClinicalDocument"), El("act"), El("code")>>
           /\ result[i].converted_xpath # result[i].original_xpath

\* The records the matcher's findall could not serve: those of a converted
\* path findall cannot compile.
Unsupported(k) == PathRaises(history[k].converted)

\* C8: an expression without any match has exactly one record, a not-found
\* one, and no expression is left without a record, also when findall
\* cannot compile the converted path; in that case the fallbacks decide, so
\* a document holding the act with template T2 gives found records for the
\* expression with that predicate.
C8_ZeroMatches ==
    FlatDone =>
        \A k \in 1..Len(catalog) :
            LET rs == RecordsOf(k)
            IN  /\ rs # <<>>
                /\ (\A i \in 1..Len(rs) : ~rs[i].found)
                       => /\ Len(rs) = 1
                          /\ rs[1].original_xpath = catalog[k]
                /\ ( /\ Unsupported(k)
                     /\ catalog[k][1] = ElT("act", "T2")
                     /\ \E n \in NodesOf(doc) :
                            doc.tag[n] = "act" /\ doc.tid[n] = "T2" )
                       => rs[1].found

\* findall could not compile the converted path, no fallback matched, and
\* the expression has its one not-found record.
C8_Witness ==
    /\ FlatDone
    /\ \E k \in 1..Len(catalog) :
           /\ Unsupported(k)
           /\ Len(RecordsOf(k)) = 1
           /\ ~RecordsOf(k)[1].found

\* -------------------------------------------------------------- conversion
\* C9: two conversions of the same expression by one finder return the same
\* converted path and store the same template predicate (identifier and
\* element name), whatever was converted before or between them.
C9_ConversionDeterminism ==
    \A i, j \in 1..Len(history) :
        history[i].xpath = history[j].xpath
            => /\ history[i].converted = history[j].converted
               /\ history[i].stored = history[j].stored

\* An expression without a predicate was converted twice, with an
\* expression carrying a predicate converted in between.
C9_Witness ==
    /\ pc = "conversions"
    /\ Len(history) = 3
    /\ history[1].xpath = history[3].xpath
    /\ history[1].stored = NoPredicate
    /\ history[2].stored # NoPredicate

\* ------------------------------------------------------------ parse failure
\* C11: when the file is malformed or missing, the call of either mode has
\* produced no record and no instance and has returned nothing, and once it
\* has ended it has raised the error of the failure to its caller; a call on
\* a parsed file raises nothing.
C11_ParseFailureFatal ==
    /\ file = "parsed" => error = None /\ pc # "raised"
    /\ file # "parsed" =>
           /\ pc \in {"start", "convert", "raised"}
           /\ result = None
           /\ results = <<>>
           /\ instances = <<>>
           /\ pc = "raised" =>
                  error = (IF file = "malformed" THEN "Error parsing XML file"
                           ELSE "XML file not found")
           /\ pc # "raised" => error = None

\* A grouped call with a catalog of two expressions on a missing file has
\* raised.
C11_Witness ==
    /\ pc = "raised"
    /\ file = "missing"
    /\ template_id = "T1"
    /\ Len(catalog) = 2
    /\ error = "XML file not found"

\* ------------------------------------------------------- failure isolation
\* A record without the position of its entry in the catalog.
Content(r) ==
    [original_xpath |-> r.original_xpath, converted_xpath |-> r.converted_xpath,
     found |-> r.found, node |-> r.node, attr |-> r.attr,
     element_path |-> r.element_path]

\* The records find_elements returns for the catalog of the one expression
\* xpath, on a finder that has converted nothing before.
AloneRecords(d, xpath) ==
    LET c == ConvertXPathForET(xpath)
        rs == EntryRecords(d, xpath, c,
                  FindElementsByXPath(d, StoredPredicate(NoPredicate, xpath), c),
                  1)
    IN  [i \in 1..Len(rs) |-> Content(rs[i])]

\* The entries of a catalog whose processing does not raise, in order.
WithoutFailing(entries) == SelectSeq(entries, LAMBDA x : ~ConvertRaises(x))

\* C12: in flat mode an expression whose processing raises contributes no
\* record, and the records returned are, in content and order, those of the
\* catalog without the failing expressions: the records of each remaining
\* expression, one expression after the other.
C12_FailureIsolation ==
    FlatDone =>
        /\ \A k \in 1..Len(catalog) :
               ConvertRaises(catalog[k]) => RecordsOf(k) = <<>>
        /\ [i \in 1..Len(result) |-> Content(result[i])] =
               Flatten([k \in 1..Len(WithoutFailing(catalog)) |->
                           AloneRecords(doc, WithoutFailing(catalog)[k])])

\* A failing entry stood between an expression with a template predicate and
\* one without, and both have their records.
C12_Witness ==
    /\ FlatDone
    /\ Len(catalog) = 3
    /\ catalog[1] = <<ElT("observation", "T1")>>
    /\ ConvertRaises(catalog[2])
    /\ ~ConvertRaises(catalog[3])
    /\ RecordsOf(1) # <<>>
    /\ RecordsOf(3) # <<>>
    /\ \E i \in 1..Len(RecordsOf(1)) : RecordsOf(1)[i].found

\* ------------------------------------------------------------ element path
RECURSIVE RootPath(_, _)
\* The tags on the way from the document element down to node n.
RootPath(d, n) ==
    IF n = 0 THEN <<>> ELSE RootPath(d, d.parent[n]) \o <<d.tag[n]>>

\* C13 (as claimed): the path reported by a found record of the flat output
\* is the path from the document element down to the matched node, one
\* segment per ancestor, the root first, and records of the same node report
\* the same path.
C13_PathFromRoot ==
    FlatDone =>
        /\ \A i \in 1..Len(result) :
               result[i].found
                   => result[i].element_path = RootPath(doc, result[i].node)
        /\ \A i, j \in 1..Len(result) :
               (result[i].found /\ result[j].found
                    /\ result[i].node = result[j].node)
                   => result[i].element_path = result[j].element_path

\* ------------------------------------------------------- scope boundary rule
\* Some ancestor of n strictly between n and root carries a templateId other
\* than root's.
DifferentMarkerBetween(d, n, root) ==
    \E a \in AncestorsOrSelf(d.parent, n) \ {n} :
        /\ a # root
        /\ root \in AncestorsOrSelf(d.parent, a)
        /\ HasTemplateId(d, a)
        /\ d.tid[a] # d.tid[root]

RECURSIVE DescendantChain(_, _, _, _)
\* The elements the element steps steps[i..] lead to from the elements of
\* from, each step searching all descendants and keeping those of the step's
\* name that carry the templateId the step requires.
DescendantChain(d, from, steps, i) ==
    IF i > Len(steps) THEN from
    ELSE DescendantChain(d,
             {c \in NodesOf(d) :
                 /\ \E f \in from : c \in Subtree(d, f) \ {f}
                 /\ d.tag[c] = steps[i].n
                 /\ (steps[i].p = "tid" => d.tid[c] = steps[i].v)},
             steps, i + 1)

\* The candidates of an expression under the instance root: what the search
\* of its relative path yields below root before any scope check, restricted
\* to the elements carrying the attribute when the path ends in one.
SearchCandidates(d, root, xpath) ==
    LET rel == GetRelativeXPath(xpath)
        steps == SelectSeq(rel, LAMBDA q : q.k = "el")
        conv == SelectSeq(ConvertRelativeXPath(rel), LAMBDA q : q.k # "at")
        found == IF HasTemplateIdText(rel)
                 THEN DescendantChain(d, {root}, steps, 1)
                 ELSE SeqToSet(FindAll(d, root, conv).els)
    IN  IF rel # <<>> /\ rel[Len(rel)].k = "at"
        THEN {x \in found : rel[Len(rel)].n \in d.attrs[x]}
        ELSE found

\* C14 (as claimed): a candidate N other than the instance root R is left out
\* of R's results if and only if an ancestor strictly between N and R carries
\* a templateId other than R's; so N is reported when the markers between
\* are R's own identifier, and when only N itself carries a marker.
C14_InclusionRule ==
    pc = "done" =>
        \A k \in 1..Len(template_elements) :
            \A n \in SearchCandidates(doc, template_elements[k], catalog[1])
                         \ {template_elements[k]} :
                n \in ResultNodes(ReportedFor(k, catalog[1]))
                    <=> ~DifferentMarkerBetween(doc, n, template_elements[k])

\* ------------------------------------------------- flat template predicate
\* C15 (as claimed): in the flat output, every found record of an expression
\* that carries the predicate Elem[templateId[@root='ID']] refers to an
\* element that is, or lies beneath, an Elem element whose templateId is ID.
C15_PredicateHonoured ==
    FlatDone =>
        \A i \in 1..Len(result) :
            LET xpath == catalog[result[i].entry]
                t == SelectIdx(xpath, 1, "tid")
            IN  (result[i].found /\ t > 0)
                    => \E e \in AncestorsOrSelf(doc.parent, result[i].node) :
                           /\ doc.tag[e] = xpath[t].n
                           /\ doc.tid[e] = xpath[t].v

\* ------------------------------------------------------------ fallback chain
\* The matches behind the found records of the k-th expression.
ItemsOf(k) ==
    LET rs == SelectSeq(RecordsOf(k), LAMBDA r : r.found)
    IN  [i \in 1..Len(rs) |-> [node |-> rs[i].node, attr |-> rs[i].attr]]

\* What each strategy yields alone for the converted path of the k-th
\* expression: the structural lookup (nothing when it fails), the attribute
\* split and the recursive search.
StructuralOf(k) ==
    LET found == FindAll(doc, 1, history[k].converted)
    IN  IF found.ok THEN ElemResults(found.els) ELSE <<>>
AttributeSplitOf(k) == FindElementsWithAttributes(doc, 1, history[k].converted)
RecursiveOf(k) == ElemResults(FindElementsRecursive(doc, 1, history[k].converted))

\* The strategies consulted for the k-th expression.
TriedOf(k) ==
    SeqToSet(StrategiesTried(doc, history[k].stored, history[k].converted))

\* The matches of the k-th expression are those of the first strategy of the
\* chain that yields any.
ChainResult(k) ==
    ItemsOf(k) = IF StructuralOf(k) # <<>> THEN StructuralOf(k)
                 ELSE IF AttributeSplitOf(k) # <<>> THEN AttributeSplitOf(k)
                 ELSE RecursiveOf(k)

C17_RootIncluded ==
    pc = "done" =>
        \A k \in 1..Len(template_elements) :
            LET root == template_elements[k]
            IN  /\ catalog[1] = <<T1Step>>
                       => ReportedFor(k, catalog[1]) = <<ElemResult(root)>>
                /\ (catalog[1] = <<T1Step, At("code")>>
                        /\ "code" \in doc.attrs[root])
                       => ReportedFor(k, catalog[1]) = <<AttrResult(root, "code")>>

\* An occurrence carrying the attribute, with an occurrence of another
\* template and an occurrence of its own template below it, reports its own
\* attribute.
C17_Witness ==
    /\ pc = "done"
    /\ catalog[1] = <<T1Step, At("code")>>
    /\ \E k \in 1..Len(template_elements) :
           LET root == template_elements[k]
           IN  /\ "code" \in doc.attrs[root]
               /\ \E a, b \in Subtree(doc, root) \ {root} :
                      doc.tid[a] = "T1" /\ doc.tid[b] = "T2"
               /\ ReportedFor(k, catalog[1]) = <<AttrResult(root, "code")>>

\* ------------------------------------------- element/attribute consistency
\* C18 (as claimed): within every instance, the elements whose attribute is
\* reported for the expression p/@code are the elements reported for the
\* expression p that carry the attribute code, for p of one step and of two.
C18_ElementAttributeConsistency ==
    pc = "done" =>
        \A k \in 1..Len(template_elements) :
            ResultNodes(ReportedFor(k, catalog[2])) =
                {n \in ResultNodes(ReportedFor(k, catalog[1])) :
                    "code" \in doc.attrs[n]}

\* ------------------------------------------------ vocabulary qualification
\* C19 (as claimed): in every converted path, each element step whose name is
\* in the vocabulary carries the prefix cda:, steps with an inline attribute
\* predicate included, and each step that carries the prefix either has a
\* vocabulary name or was written with the prefix in the expression.
C19_VocabularyQualified ==
    \A h \in 1..Len(history) :
        LET xpath == history[h].xpath
            path == history[h].converted
        IN  \A j \in 1..Len(path) :
                path[j].k = "el" =>
                    /\ path[j].n \in FlatCdaElements => path[j].ns = "cda"
                    /\ path[j].ns = "cda" =>
                           \/ path[j].n \in FlatCdaElements
                           \/ \E i \in 1..Len(xpath) :
                                  xpath[i].ns = "cda" /\ xpath[i].n = path[j].n

\* ---------------------------------------------------- descendant promotion
\* The expression starts at the root: a leading slash or a leading
\* ClinicalDocument step.
RootAnchored(xpath) ==
    xpath # <<>> /\ (xpath[1].k = "empty" \/ IsClinicalDocument(xpath[1]))

\* The converted path is the search from anywhere that the expression itself
\* was not.
Promoted(xpath, path) ==
    /\ Len(path) >= 2 /\ path[1] = Dot /\ path[2] = EmptyPart
    /\ ~(Len(xpath) >= 2 /\ xpath[1] = Dot /\ xpath[2] = EmptyPart)

\* C20 (as claimed): a converted path is promoted exactly when the expression
\* is not root-anchored and the name of its leading step is one of the search
\* elements; a leading name that only begins with one is not promoted.
C20_PromotionExact ==
    \A h \in 1..Len(history) :
        LET xpath == history[h].xpath
        IN  Promoted(xpath, history[h].converted)
                <=> /\ ~RootAnchored(xpath)
                    /\ xpath # <<>>
                    /\ xpath[1].k = "el"
                    /\ xpath[1].n \in CdaSearchElements

\* --------------------------------------------------- state of a conversion
\* C21 (as claimed): a conversion leaves the stored template predicate of the
\* finder as it was.
C21_NoHiddenState == [][current' = current]_vars

\* The template predicate written in an expression: identifier and element
\* name of its first templateId step, or none.
WrittenPredicate(xpath) ==
    LET tids == {j \in 1..Len(xpath) : xpath[j].p = "tid"}
    IN  IF tids = {} THEN [templateid |-> None, element_type |-> None]
        ELSE LET j == CHOOSE m \in tids : \A o \in tids : m <= o
             IN  [templateid |-> xpath[j].v, element_type |-> xpath[j].n]

\* C21 (amended): every conversion overwrites the stored template predicate
\* of the finder with the predicate written in the converted expression, or
\* clears it when the expression has none; the finder holds what the latest
\* conversion stored, and the converted path returned does not depend on the
\* conversions made before.
C21_ConversionStoresPredicate ==
    /\ \A i \in 1..Len(history) :
          /\ history[i].stored = WrittenPredicate(history[i].xpath)
          /\ \A j \in 1..Len(history) :
                history[i].xpath = history[j].xpath
                    => history[i].converted = history[j].converted
    /\ pc = "conversions" /\ history # <<>>
          => current = history[Len(history)].stored

\* Two conversions changed what the finder stores: the first stored a
\* predicate, the second cleared it.
C21_Witness ==
    /\ pc = "conversions"
    /\ Len(history) = 2
    /\ history[1].stored.templateid # None
    /\ history[2].stored.templateid = None
    /\ current = history[2].stored

\* ------------------------------------------------------------- field keys
\* The parts of an expression before its trailing attribute access.
ElementPart(xpath) ==
    IF LastAttrIdx(xpath) > 0 THEN SubSeq(xpath, 1, LastAttrIdx(xpath) - 1)
    ELSE xpath

\* The element-name segments of a key derived from an expression: all its
\* segments but the attribute name that ends it.
ElementSegments(xpath, key) ==
    IF LastAttrIdx(xpath) > 0 /\ key.sep = "/"
    THEN SubSeq(key.segs, 1, Len(key.segs) - 1)
    ELSE key.segs

\* The names of the parts at the given positions that are not generic, in
\* path order.
RECURSIVE NamesAt(_, _, _)
NamesAt(parts, from, to) ==
    IF from > to THEN <<>>
    ELSE (IF parts[from].n \in GenericNames THEN <<>>
          ELSE <<Seg(parts[from].n)>>) \o NamesAt(parts, from + 1, to)

\* The keys of the fields the call reported.
ReportedKeys ==
    UNION {DOMAIN result.instances[i].fields : i \in 1..Len(result.instances)}

\* C22 (as claimed): the element-name segments of every reported key are the
\* names of the last two path segments before the trailing attribute access
\* that are not generic, whenever one of the two is not generic.
C22_LastTwoSegments ==
    pc = "done" =>
        \A key \in ReportedKeys :
            LET parts == ElementPart(catalog[1])
                claimed == NamesAt(parts, IF Len(parts) > 2 THEN Len(parts) - 1
                                          ELSE 1, Len(parts))
            IN  Len(parts) >= 2 /\ claimed # <<>>
                    => ElementSegments(catalog[1], key) = claimed

\* C22 (amended): the element-name segments of every reported key are the
\* last two names that are not generic among all the path segments before the
\* trailing attribute access, however far back they stand, whenever the path
\* has two segments or more and one of them is not generic; every instance
\* reports the expression under the same key.
C22_LastTwoSurviving ==
    pc = "done" =>
        /\ \A key \in ReportedKeys :
            LET parts == ElementPart(catalog[1])
                surviving == NamesAt(parts, 1, Len(parts))
                count == Len(surviving)
            IN  Len(parts) >= 2 /\ surviving # <<>>
                    => ElementSegments(catalog[1], key) =
                           SubSeq(surviving, IF count > 2 THEN count - 1 ELSE 1,
                                  count)
        /\ \A i, j \in 1..Len(result.instances) :
              DOMAIN result.instances[i].fields = DOMAIN result.instances[j].fields

\* An expression with a generic name among its last two segments and another
\* name before them was reported under a key that holds the name before them.
C22_Witness ==
    /\ pc = "done"
    /\ catalog[1] = <<El("entry"), T1Step, El("code"), At("code")>>
    /\ result.instance_count = 1
    /\ [sep |-> "/", segs |-> <<Seg("entry"), Seg("code"), Seg("code")>>]
           \in ReportedKeys

\* The key <lastSegment>_<attributeName>, or the bare last segment, of an
\* expression.
FallbackKey(xpath) ==
    LET parts == ElementPart(xpath)
        last == Seg(parts[Len(parts)].n)
    IN  IF LastAttrIdx(xpath) > 0
        THEN [sep |-> "_", segs |-> <<last, Seg(xpath[LastAttrIdx(xpath)].n)>>]
        ELSE [sep |-> "/", segs |-> <<last>>]

\* Every element segment of the expression is a generic name.
AllGeneric(xpath) ==
    LET parts == ElementPart(xpath) IN NamesAt(parts, 1, Len(parts)) = <<>>

\* C23 (as claimed): an expression all of whose element segments are generic
\* is reported under <lastSegment>_<attributeName> when it ends in an
\* attribute access and under its bare last segment otherwise, also when a
\* single element segment stands before the attribute.
C23_FallbackKey ==
    pc = "done" =>
        \A key \in ReportedKeys :
            AllGeneric(catalog[1]) => key = FallbackKey(catalog[1])

\* C23 (amended): an expression all of whose element segments are generic is
\* reported under <lastSegment>_<attributeName> when it ends in an attribute
\* access that two or more element segments precede, under the attribute name
\* alone when a single element segment precedes the attribute, and under its
\* bare last segment when it has no attribute access.
C23_FallbackKeyByLength ==
    pc = "done" =>
        \A key \in ReportedKeys :
            AllGeneric(catalog[1]) =>
                key = IF LastAttrIdx(catalog[1]) > 0
                         /\ Len(ElementPart(catalog[1])) = 1
                      THEN [sep |-> "/",
                            segs |-> <<Seg(catalog[1][LastAttrIdx(catalog[1])].n)>>]
                      ELSE FallbackKey(catalog[1])

\* The attribute of an instance root was reported for an expression of one
\* element segment, under the attribute name alone.
C23_Witness ==
    /\ pc = "done"
    /\ catalog[1] = <<T1Step, At("code")>>
    /\ ReportedKeys = {[sep |-> "/", segs |-> <<Seg("code")>>]}

\* ----------------------------------------------------------- key collision
\* What the expression at position j of the catalog matches within located
\* occurrence k.
MatchesOf(k, j) ==
    FindWithinTemplateInstance(doc, template_elements[k],
                               GetRelativeXPath(catalog[j]))

\* The positions of the catalog whose expression derives the key and matches
\* within located occurrence k.
Writers(k, key) ==
    {j \in 1..Len(catalog) :
        ExtractFieldName(catalog[j]) = key /\ MatchesOf(k, j) # <<>>}

\* C24: when distinct expressions of a group derive the same key and match
\* within an instance, the field map of the instance holds under the key the
\* matches of the one that comes last in the catalog and nothing of the
\* earlier ones, and the call ends without error.
C24_LastWriteWins ==
    pc = "done" =>
        /\ error = None
        /\ \A i \in 1..Len(result.instances) :
              LET instance == result.instances[i]
                  k == instance.instance_number
              IN  \A key \in DOMAIN instance.fields :
                      /\ Writers(k, key) # {}
                      /\ \A j \in Writers(k, key) :
                            (\A l \in Writers(k, key) : l <= j)
                                => instance.fields[key] = MatchesOf(k, j)

\* Two distinct expressions with the same key matched different things in
\* the first instance, and the instance holds the matches of the later one.
C24_Witness ==
    /\ pc = "done"
    /\ Len(catalog) >= 2
    /\ Len(template_elements) >= 1
    /\ catalog[1] # catalog[2]
    /\ ExtractFieldName(catalog[1]) = ExtractFieldName(catalog[2])
    /\ MatchesOf(1, 1) # <<>>
    /\ MatchesOf(1, 2) # <<>>
    /\ MatchesOf(1, 1) # MatchesOf(1, 2)
    /\ Len(result.instances) >= 1
    /\ result.instances[1].fields =
           (ExtractFieldName(catalog[2]) :> MatchesOf(1, 2))

\* ------------------------------------------------ predicate-only expression
\* C25: for an expression that is its template step and nothing more, every
\* located occurrence of the template is an instance of the output, in the
\* order located, and its only field holds exactly one entry, the occurrence
\* itself as an element; no occurrence is dropped.
C25_PredicateOnlyIsRoot ==
    pc = "done" /\ GetRelativeXPath(catalog[1]) = <<>> =>
        /\ result.instance_count = Len(template_elements)
        /\ Len(result.instances) = Len(template_elements)
        /\ \A k \in 1..Len(template_elements) :
              /\ result.instances[k].instance_number = k
              /\ result.instances[k].fields =
                     (ExtractFieldName(catalog[1]) :>
                          <<[node |-> template_elements[k], attr |-> ""]>>)

\* The expression was the template step alone and the document held two
\* occurrences of the template, one inside the other.
C25_Witness ==
    /\ pc = "done"
    /\ catalog = <<<<T1Step>>>>
    /\ Len(template_elements) = 2
    /\ doc.parent[template_elements[2]] = template_elements[1]
    /\ result.instance_count = 2

\* ------------------------------------------------- interleaved conversions
\* C26: every matching step of a call uses the template predicate that the
\* latest conversion on the finder stored, whichever call made it: when the
\* other call converted its expression after this call converted its own,
\* this call's expression is matched with the other expression's identifier
\* and element name, or with none.
C26_MatchUsesLatestPredicate ==
    [][pc = "match" /\ pc' = "convert" =>
           results' = results \o
               EntryRecords(doc, catalog[fpos], converted,
                   FindElementsByXPath(
                       doc, WrittenPredicate(history[Len(history)].xpath),
                       converted), fpos)]_vars

\* The other call converted its expression between this call's conversion
\* and this call's matching, and this call returned other records than it
\* returns when it runs alone.
C26_Witness ==
    /\ pc = "done"
    /\ Len(history) = 2
    /\ history[1].xpath = catalog[1]
    /\ history[2].xpath = other.catalog[1]
    /\ [i \in 1..Len(result) |-> Content(result[i])] # AloneRecords(doc, catalog[1])

\* ------------------------------------------ predicate of a sequential run
\* C27: in one run of find_elements, whenever an expression is about to be
\* matched the stored template predicate is the predicate written in that
\* expression, none when it has no templateId predicate, and an expression
\* without one is not handed to the template-identifier search, whatever was
\* processed before it.
C27_SequentialPredicate ==
    pc = "match" =>
        /\ current = WrittenPredicate(catalog[fpos])
        /\ WrittenPredicate(catalog[fpos]).templateid = None =>
               "templateid" \notin
                   SeqToSet(StrategiesTried(doc, current, converted))

\* An expression without predicate is about to be matched right after one
\* with a predicate, and its structural lookup finds nothing, so that a
\* fallback is chosen.
C27_Witness ==
    /\ pc = "match"
    /\ fpos >= 2
    /\ WrittenPredicate(catalog[fpos - 1]).templateid # None
    /\ WrittenPredicate(catalog[fpos]).templateid = None
    /\ Len(StrategiesTried(doc, current, converted)) = 2

\* -------------------------------------- sub-path after a template predicate
\* C28 (as claimed): every found record of the expression
\* act[templateId[@root='T2']]/code/@code is the attribute code of a code
\* child of an act that carries T2; the act itself is never the match.
C28_SubPathNavigated ==
    pc = "done" =>
        \A i \in 1..Len(result) :
            /\ result[i].found
            /\ result[i].original_xpath = <<ElT("act", "T2"), El("code"), At("code")>>
            => /\ result[i].attr = "code"
               /\ doc.tag[result[i].node] = "code"
               /\ doc.tag[doc.parent[result[i].node]] = "act"
               /\ doc.tid[doc.parent[result[i].node]] = "T2"

\* ---------------------------------------------------------- record grouping
\* C29: in the flat output the records stand in the catalog order of their
\* expressions, those of one expression next to each other; an expression
\* that was processed has either found records only, one or more, or a
\* single not-found record, and an entry whose processing failed has none.
C29_RecordGrouping ==
    pc = "done" =>
        /\ \A i \in 1..(Len(result) - 1) : result[i].entry <= result[i + 1].entry
        /\ \A i \in 1..Len(result) :
              /\ result[i].entry \in 1..Len(catalog)
              /\ result[i].original_xpath = catalog[result[i].entry]
        /\ \A k \in 1..Len(catalog) :
              LET found == {i \in 1..Len(result) :
                               result[i].entry = k /\ result[i].found}
                  missed == {i \in 1..Len(result) :
                                result[i].entry = k /\ ~result[i].found}
              IN  IF ConvertRaises(catalog[k]) THEN found = {} /\ missed = {}
                  ELSE \/ found # {} /\ missed = {}
                       \/ found = {} /\ Cardinality(missed) = 1

\* A catalog gave two found records for its first expression and one
\* not-found record for its second.
C29_Witness ==
    /\ pc = "done"
    /\ Len(catalog) >= 2
    /\ Len(result) >= 3
    /\ result[1].entry = 1 /\ result[1].found
    /\ result[2].entry = 1 /\ result[2].found
    /\ result[3].entry = 2 /\ ~result[3].found

\* ------------------------------------------------------------ auto-grouping
\* The identifiers the entries are grouped under.
GroupIds == {auto.groups[g].id : g \in 1..Len(auto.groups)}

\* C30: once the entries are grouped, every expression of the catalog is in
\* the group of its first templateId identifier, or in the group ungrouped
\* when it has none, and in no other; each group holds its expressions in
\* catalog order and no identifier has two groups.  The output of the call
\* holds only groups with at least one instance, never the group ungrouped
\* and never a group whose identifier no element of the document carries,
\* and the call ends without error.
C30_AutoGrouping ==
    /\ auto.pc \in {"groups", "call", "done"} =>
          /\ \A g, h \in 1..Len(auto.groups) :
                auto.groups[g].id = auto.groups[h].id => g = h
          /\ \A g \in 1..Len(auto.groups) :
                /\ auto.groups[g].entries # <<>>
                /\ auto.groups[g].entries =
                       SelectSeq(auto.entries, LAMBDA x :
                           auto.groups[g].id =
                               IF WrittenPredicate(x).templateid = None
                               THEN "ungrouped"
                               ELSE WrittenPredicate(x).templateid)
          /\ \A k \in 1..Len(auto.entries) :
                \E g \in 1..Len(auto.groups) :
                    \E m \in 1..Len(auto.groups[g].entries) :
                        auto.groups[g].entries[m] = auto.entries[k]
    /\ auto.pc = "done" =>
          /\ error = None
          /\ \A r \in 1..Len(auto.result) :
                /\ auto.result[r].instances # <<>>
                /\ auto.result[r].instance_count >= 1
                /\ auto.result[r].template_id \in GroupIds \ {"ungrouped"}
                /\ FindTemplateInstances(doc, auto.result[r].template_id) # <<>>
                /\ \A m \in 1..Len(auto.result[r].xpath_expressions) :
                      WrittenPredicate(auto.result[r].xpath_expressions[m]).templateid
                          = auto.result[r].template_id

\* A catalog with an expression of T1 and an expression without predicate
\* was grouped in two groups, and the output is the one group of T1 with its
\* instance.
C30_Witness ==
    /\ auto.pc = "done"
    /\ auto.entries =
           <<<<ElT("observation", "T1"), El("code"), At("code")>>,
             <<El("observation"), El("code")>>>>
    /\ GroupIds = {"T1", "ungrouped"}
    /\ Len(auto.result) = 1
    /\ auto.result[1].template_id = "T1"
    /\ auto.result[1].instance_count = 1

====
